---------------------------- MODULE Spec2Model ----------------------------
(***************************************************************************)
(* Local AI Gateway (local-ai/gateway/main.py, routes.py): the job store,  *)
(* the request handlers and the job execution coroutine, as a state        *)
(* machine.  The gateway runs on one asyncio event loop, so a handler or   *)
(* coroutine runs without interruption between two suspension points; the  *)
(* only suspension point that separates writes to the job store is the     *)
(* backend call `await http_client.post(...)` in process_job.              *)
(***************************************************************************)
EXTENDS Integers, Sequences, FiniteSets, TLC

(***************************************************************************)
(* Bounds of the model.                                                    *)
(***************************************************************************)
\* number of submissions accepted in one behaviour (uuid4 values drawn)
MaxJobs == 1
\* number of entries of the route tables that get_route is run over
MaxRoutes == 2
\* number of times transform_request_to_local is applied in a row
MaxApply == 2
\* number of jobs in the store of StoreSpec
MaxStored == 2
\* number of submissions accepted in one behaviour of ConcurrentSpec
MaxSubmitted == 2
\* number of times the wall clock advances in one behaviour
MaxTime == 1
\* number of requests the TTS router receives in one behaviour
MaxSpeech == 2

(***************************************************************************)
(* Python values.  Every value is a record tagged by k; a dict keeps its   *)
(* insertion order, so it is a sequence of key/value items.                *)
(***************************************************************************)
None == [k |-> "none"]
Str(s) == [k |-> "str", s |-> s]
Num(n) == [k |-> "num", n |-> n]
Bool(b) == [k |-> "bool", b |-> b]
List(xs) == [k |-> "list", xs |-> xs]
Item(key, val) == [key |-> key, val |-> val]
Dict(items) == [k |-> "dict", items |-> items]
\* a raised exception, as a value: its class and str(e)
Exc(type, msg) == [k |-> "exc", type |-> type, msg |-> msg]

IsDict(v) == v.k = "dict"
IsExc(v) == v.k = "exc"

\* Python's name of a value's type, as it appears in error messages
TypeName(v) ==
    CASE v.k = "none" -> "NoneType"
      [] v.k = "str" -> "str"
      [] v.k = "num" -> "int"
      [] v.k = "bool" -> "bool"
      [] v.k = "list" -> "list"
      [] v.k = "dict" -> "dict"
      [] OTHER -> "object"

\* bool(v)
Truthy(v) ==
    CASE v.k = "none" -> FALSE
      [] v.k = "str" -> v.s # ""
      [] v.k = "num" -> v.n # 0
      [] v.k = "bool" -> v.b
      [] v.k = "list" -> Len(v.xs) > 0
      [] v.k = "dict" -> Len(v.items) > 0
      [] OTHER -> TRUE

\* a or b
Or(a, b) == IF Truthy(a) THEN a ELSE b

\* key in d, for a dict d
HasKey(d, key) == \E i \in 1..Len(d.items) : d.items[i].key = key

\* d.get(key, default); on a value that is no dict, `.get` raises AttributeError
NoGet(v) == Exc("AttributeError", "'" \o TypeName(v) \o "' object has no attribute 'get'")
Get(d, key, default) ==
    IF ~IsDict(d) THEN NoGet(d)
    ELSE IF HasKey(d, key)
         THEN d.items[CHOOSE i \in 1..Len(d.items) : d.items[i].key = key].val
         ELSE default

\* s.startswith(prefix), s.endswith(suffix), sub in s
StartsWith(s, prefix) ==
    Len(prefix) <= Len(s) /\ SubSeq(s, 1, Len(prefix)) = prefix
EndsWith(s, suffix) ==
    Len(suffix) <= Len(s) /\ SubSeq(s, Len(s) - Len(suffix) + 1, Len(s)) = suffix
Contains(s, sub) ==
    \E i \in 1..(Len(s) - Len(sub) + 1) : SubSeq(s, i, i + Len(sub) - 1) = sub

(***************************************************************************)
(* routes.py                                                               *)
(***************************************************************************)
COMFYUI_URL == "http://localhost:8188"
COSMOS_URL == "http://localhost:10002"
AUDIOCRAFT_URL == "http://localhost:10003"
TTS_URL == "http://localhost:10004"

\* Optional[str] fields of RouteConfig hold NoName when they are None
NoName == "<None>"

RouteConfig(local_url, endpoint, category, transform_request) ==
    [local_url |-> local_url, endpoint |-> endpoint, category |-> category,
     transform_request |-> transform_request, transform_response |-> NoName]

\* the route table, in insertion order
ROUTE_MAP ==
    << [key |-> "fal-ai/flux/dev",
        config |-> RouteConfig(COMFYUI_URL, "/prompt", "image", "comfyui_flux")],
       [key |-> "fal-ai/flux/schnell",
        config |-> RouteConfig(COMFYUI_URL, "/prompt", "image", "comfyui_flux_schnell")],
       [key |-> "fal-ai/flux-pro/v1.1-ultra",
        config |-> RouteConfig(COMFYUI_URL, "/prompt", "image", "comfyui_flux_ultra")],
       [key |-> "fal-ai/stable-diffusion-v35-large",
        config |-> RouteConfig(COMFYUI_URL, "/prompt", "image", "comfyui_sd35")],
       [key |-> "fal-ai/minimax/video-01-live",
        config |-> RouteConfig(COSMOS_URL, "/generate", "video", NoName)],
       [key |-> "fal-ai/hunyuan-video",
        config |-> RouteConfig(COSMOS_URL, "/generate", "video", NoName)],
       [key |-> "fal-ai/kling-video/v1.5/pro",
        config |-> RouteConfig(COSMOS_URL, "/generate", "video", NoName)],
       [key |-> "fal-ai/kling-video/v1/standard/text-to-video",
        config |-> RouteConfig(COSMOS_URL, "/generate", "video", NoName)],
       [key |-> "fal-ai/luma-dream-machine",
        config |-> RouteConfig(COSMOS_URL, "/generate", "video", NoName)],
       [key |-> "fal-ai/veo2",
        config |-> RouteConfig(COSMOS_URL, "/generate", "video", NoName)],
       [key |-> "fal-ai/ltx-video-v095/multiconditioning",
        config |-> RouteConfig(COSMOS_URL, "/generate", "video", NoName)],
       [key |-> "fal-ai/minimax-music",
        config |-> RouteConfig(AUDIOCRAFT_URL, "/api/predict", "music", "gradio_audiocraft")],
       [key |-> "fal-ai/stable-audio",
        config |-> RouteConfig(AUDIOCRAFT_URL, "/api/predict", "music", "gradio_audiocraft")],
       [key |-> "fal-ai/mmaudio-v2",
        config |-> RouteConfig(AUDIOCRAFT_URL, "/api/predict", "audio", "gradio_audiocraft")],
       [key |-> "fal-ai/playht/tts/v3",
        config |-> RouteConfig(TTS_URL, "/v1/audio/speech", "tts", "kokoro_tts")],
       [key |-> "fal-ai/playai/tts/dialog",
        config |-> RouteConfig(TTS_URL, "/v1/audio/speech", "tts", "kokoro_tts")],
       [key |-> "fal-ai/f5-tts",
        config |-> RouteConfig(TTS_URL, "/v1/audio/speech", "tts", "kokoro_tts")],
       [key |-> "fal-ai/sync-lipsync",
        config |-> RouteConfig(COSMOS_URL, "/lipsync", "video", NoName)],
       [key |-> "fal-ai/topaz/upscale/video",
        config |-> RouteConfig(COSMOS_URL, "/upscale", "video", NoName)] >>

\* get_route returns None for an id that no key matches
NoRoute == [local_url |-> "", endpoint |-> "", category |-> "",
            transform_request |-> NoName, transform_response |-> NoName,
            none |-> TRUE]

\* RouteIn, had the wildcard loop run before the exact lookup
RouteIn_WildFirst(table, endpoint_id) ==
    LET exact == {i \in 1..Len(table) : table[i].key = endpoint_id}
        wild == {i \in 1..Len(table) :
                    /\ EndsWith(table[i].key, "*")
                    /\ StartsWith(endpoint_id,
                                  SubSeq(table[i].key, 1, Len(table[i].key) - 1))}
        First(S) == CHOOSE i \in S : \A j \in S : i <= j
    IN  IF wild # {} THEN table[First(wild)].config
        ELSE IF exact # {} THEN table[First(exact)].config
        ELSE NoRoute

\* RouteIn, had an unmatched id fallen back to the first wildcard entry
RouteIn_Fallback(table, endpoint_id) ==
    LET exact == {i \in 1..Len(table) : table[i].key = endpoint_id}
        wild == {i \in 1..Len(table) : EndsWith(table[i].key, "*")}
        First(S) == CHOOSE i \in S : \A j \in S : i <= j
    IN  IF exact # {} THEN table[First(exact)].config
        ELSE IF wild # {} THEN table[First(wild)].config
        ELSE NoRoute

\* get_route over a table: the exact key first, then the first key ending in
\* "*" whose prefix starts the id
RouteIn(table, endpoint_id) ==
    LET exact == {i \in 1..Len(table) : table[i].key = endpoint_id}
        wild == {i \in 1..Len(table) :
                    /\ EndsWith(table[i].key, "*")
                    /\ StartsWith(endpoint_id,
                                  SubSeq(table[i].key, 1, Len(table[i].key) - 1))}
        First(S) == CHOOSE i \in S : \A j \in S : i <= j
    IN  IF exact # {} THEN table[First(exact)].config
        ELSE IF wild # {} THEN table[First(wild)].config
        ELSE NoRoute

get_route(endpoint_id) == RouteIn(ROUTE_MAP, endpoint_id)

list_available_endpoints == [i \in 1..Len(ROUTE_MAP) |-> ROUTE_MAP[i].key]


(***************************************************************************)
(* str(v) and repr(v), as used by f-strings and error messages             *)
(***************************************************************************)
RECURSIVE Repr(_)
RECURSIVE ReprSeq(_, _)
RECURSIVE ReprItems(_, _)
ReprSeq(xs, i) ==
    IF i > Len(xs) THEN ""
    ELSE Repr(xs[i]) \o (IF i < Len(xs) THEN ", " ELSE "") \o ReprSeq(xs, i + 1)
ReprItems(items, i) ==
    IF i > Len(items) THEN ""
    ELSE "'" \o items[i].key \o "': " \o Repr(items[i].val)
         \o (IF i < Len(items) THEN ", " ELSE "") \o ReprItems(items, i + 1)
Repr(v) ==
    CASE v.k = "none" -> "None"
      [] v.k = "str" -> "'" \o v.s \o "'"
      [] v.k = "num" -> ToString(v.n)
      [] v.k = "bool" -> IF v.b THEN "True" ELSE "False"
      [] v.k = "list" -> "[" \o ReprSeq(v.xs, 1) \o "]"
      [] v.k = "dict" -> "{" \o ReprItems(v.items, 1) \o "}"
      [] OTHER -> v.msg

PyStr(v) == IF v.k = "str" THEN v.s ELSE Repr(v)

(***************************************************************************)
(* main.py: ComfyUI workflow template                                      *)
(***************************************************************************)
Ref(node, index) == List(<<Str(node), Num(index)>>)

\* x % (2**32) for x >= 0, computed by 16-bit halves (TLC's integers are 32-bit)
Mod32(x) == (x % (2^16)) + (2^16) * ((x \div (2^16)) % (2^16))

\* get_comfyui_workflow; t is time.time() and client_id is str(uuid.uuid4())
get_comfyui_workflow(prompt, width, height, steps, t, client_id) ==
    Dict(<<
      Item("prompt", Dict(<<
        Item("3", Dict(<<
          Item("class_type", Str("KSampler")),
          Item("inputs", Dict(<<
            Item("cfg", Num(1)),
            Item("denoise", Num(1)),
            Item("latent_image", Ref("5", 0)),
            Item("model", Ref("4", 0)),
            Item("negative", Ref("7", 0)),
            Item("positive", Ref("6", 0)),
            Item("sampler_name", Str("euler")),
            Item("scheduler", Str("simple")),
            Item("seed", Num(Mod32(t * 1000))),
            Item("steps", Num(steps)) >>)) >>)),
        Item("4", Dict(<<
          Item("class_type", Str("CheckpointLoaderSimple")),
          Item("inputs", Dict(<<
            Item("ckpt_name", Str("flux1-dev.safetensors")) >>)) >>)),
        Item("5", Dict(<<
          Item("class_type", Str("EmptyLatentImage")),
          Item("inputs", Dict(<<
            Item("batch_size", Num(1)),
            Item("height", height),
            Item("width", width) >>)) >>)),
        Item("6", Dict(<<
          Item("class_type", Str("CLIPTextEncode")),
          Item("inputs", Dict(<<
            Item("clip", Ref("4", 1)),
            Item("text", prompt) >>)) >>)),
        Item("7", Dict(<<
          Item("class_type", Str("CLIPTextEncode")),
          Item("inputs", Dict(<<
            Item("clip", Ref("4", 1)),
            Item("text", Str("")) >>)) >>)),
        Item("8", Dict(<<
          Item("class_type", Str("VAEDecode")),
          Item("inputs", Dict(<<
            Item("samples", Ref("3", 0)),
            Item("vae", Ref("4", 2)) >>)) >>)),
        Item("9", Dict(<<
          Item("class_type", Str("SaveImage")),
          Item("inputs", Dict(<<
            Item("filename_prefix", Str("flux_output")),
            Item("images", Ref("8", 0)) >>)) >>)) >>)),
      Item("client_id", Str(client_id)) >>)

(***************************************************************************)
(* main.py: request transformation                                         *)
(***************************************************************************)
\* dict(v): a copy of a dict, {} of an empty sequence, a dict of a list of
\* [key, value] pairs with string keys; every other value raises
IsPair(x) == x.k = "list" /\ Len(x.xs) = 2 /\ x.xs[1].k = "str"

RECURSIVE PutAll(_, _, _)
PutAll(items, xs, i) ==
    IF i > Len(xs) THEN items
    ELSE LET key == xs[i].xs[1].s
             val == xs[i].xs[2]
             at == {j \in 1..Len(items) : items[j].key = key}
         IN  PutAll(IF at = {} THEN Append(items, Item(key, val))
                    ELSE [j \in 1..Len(items) |->
                            IF j \in at THEN Item(key, val) ELSE items[j]],
                    xs, i + 1)

\* DictOf, had the copy left out the keys whose value is None
DictOf_DropNone(v) ==
    IF v.k = "dict"
    THEN Dict(SelectSeq(v.items, LAMBDA item : item.val # None))
    ELSE Exc("TypeError", "'" \o TypeName(v) \o "' object is not iterable")

DictOf(v) ==
    CASE v.k = "dict" -> v
      [] v.k = "list" ->
            IF \A i \in 1..Len(v.xs) : IsPair(v.xs[i])
            THEN Dict(PutAll(<<>>, v.xs, 1))
            ELSE LET bad == CHOOSE i \in 1..Len(v.xs) :
                               /\ ~IsPair(v.xs[i])
                               /\ \A j \in 1..(i - 1) : IsPair(v.xs[j])
                 IN  IF v.xs[bad].k \in {"num", "none"}
                     THEN Exc("TypeError",
                              "cannot convert dictionary update sequence element #"
                              \o ToString(bad - 1) \o " to a sequence")
                     ELSE IF v.xs[bad].k = "list" /\ Len(v.xs[bad].xs) = 2
                     THEN Exc("TypeError", "unhashable type: '"
                              \o TypeName(v.xs[bad].xs[1]) \o "'")
                     ELSE Exc("ValueError",
                              "dictionary update sequence element #"
                              \o ToString(bad - 1) \o " has the wrong length; 2 is required")
      [] v.k = "str" ->
            IF v.s = "" THEN Dict(<<>>)
            ELSE Exc("ValueError",
                     "dictionary update sequence element #0 has length 1; 2 is required")
      [] OTHER -> Exc("TypeError", "'" \o TypeName(v) \o "' object is not iterable")

\* ComfyuiSteps, had every variant been called with the default steps=28
ComfyuiSteps_Default(name) ==
    IF name \in {"comfyui_flux", "comfyui_flux_schnell", "comfyui_flux_ultra",
                 "comfyui_sd35"}
    THEN 28 ELSE 0

ComfyuiSteps(name) ==
    CASE name = "comfyui_flux" -> 28
      [] name = "comfyui_flux_schnell" -> 4
      [] name = "comfyui_flux_ultra" -> 50
      [] name = "comfyui_sd35" -> 30
      [] OTHER -> 0

\* TransformNamedOrCategory, had the category been tested before the named
\* transforms
TransformNamedOrCategory_CategoryFirst(route, request_data) ==
    IF route.category = "video" THEN
        IF ~IsDict(request_data) THEN NoGet(request_data)
        ELSE Dict(<< Item("prompt", Get(request_data, "prompt", Str(""))),
                     Item("image_url", Get(request_data, "image_url", None)),
                     Item("duration", Get(request_data, "duration", Num(5))),
                     Item("fps", Get(request_data, "fps", Num(24))),
                     Item("width", Get(request_data, "width", Num(1280))),
                     Item("height", Get(request_data, "height", Num(720))) >>)
    ELSE IF route.transform_request = "gradio_audiocraft" THEN
        IF ~IsDict(request_data) THEN NoGet(request_data)
        ELSE Dict(<< Item("data", List(<< Get(request_data, "prompt", Str("")),
                                          Get(request_data, "duration", Num(30)) >>)) >>)
    ELSE IF route.transform_request = "kokoro_tts" THEN
        IF ~IsDict(request_data) THEN NoGet(request_data)
        ELSE Dict(<< Item("model", Str("kokoro")),
                     Item("input", Or(Get(request_data, "prompt", None),
                                      Get(request_data, "text", Str("")))),
                     Item("voice", Get(request_data, "voice", Str("af_heart"))),
                     Item("response_format", Str("wav")),
                     Item("speed", Get(request_data, "speed", Num(1))) >>)
    ELSE DictOf(request_data)

\* the branches after the ComfyUI block (main.py lines 185-216)
TransformNamedOrCategory(route, request_data) ==
    IF route.transform_request = "gradio_audiocraft" THEN
        IF ~IsDict(request_data) THEN NoGet(request_data)
        ELSE Dict(<< Item("data", List(<< Get(request_data, "prompt", Str("")),
                                          Get(request_data, "duration", Num(30)) >>)) >>)
    ELSE IF route.transform_request = "kokoro_tts" THEN
        IF ~IsDict(request_data) THEN NoGet(request_data)
        ELSE Dict(<< Item("model", Str("kokoro")),
                     Item("input", Or(Get(request_data, "prompt", None),
                                      Get(request_data, "text", Str("")))),
                     Item("voice", Get(request_data, "voice", Str("af_heart"))),
                     Item("response_format", Str("wav")),
                     Item("speed", Get(request_data, "speed", Num(1))) >>)
    ELSE IF route.category = "video" THEN
        IF ~IsDict(request_data) THEN NoGet(request_data)
        ELSE Dict(<< Item("prompt", Get(request_data, "prompt", Str(""))),
                     Item("image_url", Get(request_data, "image_url", None)),
                     Item("duration", Get(request_data, "duration", Num(5))),
                     Item("fps", Get(request_data, "fps", Num(24))),
                     Item("width", Get(request_data, "width", Num(1280))),
                     Item("height", Get(request_data, "height", Num(720))) >>)
    ELSE DictOf(request_data)

\* transform_request_to_local: the backend request, or the exception raised
transform_request_to_local(endpoint_id, route, request_data, t, client_id) ==
    IF route.transform_request # NoName /\ StartsWith(route.transform_request, "comfyui")
    THEN LET prompt == Get(request_data, "prompt", Str(""))
             image_size == Get(request_data, "image_size", Dict(<<>>))
             width == Get(image_size, "width", Num(1024))
             height == Get(image_size, "height", Num(1024))
         IN  IF IsExc(prompt) THEN prompt
             ELSE IF IsExc(width) THEN width
             ELSE IF ComfyuiSteps(route.transform_request) # 0
             THEN get_comfyui_workflow(prompt, width, height,
                                       ComfyuiSteps(route.transform_request), t, client_id)
             ELSE TransformNamedOrCategory(route, request_data)
    ELSE TransformNamedOrCategory(route, request_data)

(***************************************************************************)
(* main.py: response transformation                                        *)
(***************************************************************************)
\* os.getenv("GATEWAY_BASE_URL", "http://localhost:10000")
GATEWAY_BASE_URL == "http://localhost:10000"

\* `"images" in node_output`: TRUE, FALSE, or the exception raised
InImages(node_output) ==
    CASE node_output.k = "dict" -> Bool(HasKey(node_output, "images"))
      [] node_output.k = "list" ->
            Bool(\E i \in 1..Len(node_output.xs) : node_output.xs[i] = Str("images"))
      [] node_output.k = "str" -> Bool(Contains(node_output.s, "images"))
      [] OTHER -> Exc("TypeError",
                      "argument of type '" \o TypeName(node_output) \o "' is not iterable")

\* node_output["images"][0].get("filename"), for a node_output that passed the test
ImageFilename(node_output) ==
    IF node_output.k = "list"
    THEN Exc("TypeError", "list indices must be integers or slices, not str")
    ELSE IF node_output.k = "str"
    THEN Exc("TypeError", "string indices must be integers")
    ELSE LET images == Get(node_output, "images", None)
         IN  CASE images.k = "list" ->
                    IF Len(images.xs) = 0
                    THEN Exc("IndexError", "list index out of range")
                    ELSE Get(images.xs[1], "filename", None)
               [] images.k = "str" ->
                    IF images.s = ""
                    THEN Exc("IndexError", "string index out of range")
                    ELSE NoGet(images)
               [] images.k = "dict" -> Exc("KeyError", "0")
               [] OTHER -> Exc("TypeError",
                               "'" \o TypeName(images) \o "' object is not subscriptable")

\* the loop over local_response["outputs"].values(): the image URL of the
\* first entry that contains "images", None when there is none, or the exception
RECURSIVE ScanOutputs(_, _)
ScanOutputs(items, i) ==
    IF i > Len(items) THEN None
    ELSE LET node_output == items[i].val
             test == InImages(node_output)
         IN  IF IsExc(test) THEN test
             ELSE IF test.b
             THEN LET filename == ImageFilename(node_output)
                  IN  IF IsExc(filename) THEN filename
                      ELSE Str(GATEWAY_BASE_URL \o "/files/output/" \o PyStr(filename))
             ELSE ScanOutputs(items, i + 1)

\* local_response["data"][0] if local_response["data"] else None
DataFirst(data) ==
    IF ~Truthy(data) THEN None
    ELSE CASE data.k = "list" -> data.xs[1]
           [] data.k = "str" -> Str(SubSeq(data.s, 1, 1))
           [] data.k = "dict" -> Exc("KeyError", "0")
           [] OTHER -> Exc("TypeError",
                           "'" \o TypeName(data) \o "' object is not subscriptable")

\* transform_response_from_local, had the tts category shared the branch of
\* music and audio, which reads the Gradio data array
transform_response_from_local_TtsData(route, local_response, job_id) ==
    LET gateway_base == GATEWAY_BASE_URL
    IN
    IF route.category = "image" THEN
        IF ~IsDict(local_response) THEN NoGet(local_response)
        ELSE LET direct == Get(local_response, "image_url", None)
                 outputs == Get(local_response, "outputs", Dict(<<>>))
                 image_url ==
                    IF ~Truthy(direct) /\ HasKey(local_response, "outputs")
                    THEN IF ~IsDict(outputs)
                         THEN Exc("AttributeError", "'" \o TypeName(outputs)
                                  \o "' object has no attribute 'values'")
                         ELSE LET found == ScanOutputs(outputs.items, 1)
                              IN  IF found = None THEN direct ELSE found
                    ELSE direct
             IN  IF IsExc(image_url) THEN image_url
                 ELSE Dict(<<
                   Item("images", List(<< Dict(<<
                     Item("url", Or(image_url,
                                    Str(gateway_base \o "/files/" \o job_id \o ".png"))),
                     Item("width", Get(local_response, "width", Num(1024))),
                     Item("height", Get(local_response, "height", Num(1024))),
                     Item("content_type", Str("image/png")) >>) >>)),
                   Item("seed", Get(local_response, "seed", None)),
                   Item("prompt", Get(local_response, "prompt", None)) >>)
    ELSE IF route.category = "video" THEN
        IF ~IsDict(local_response) THEN NoGet(local_response)
        ELSE LET video_url == Or(Get(local_response, "video_url", None),
                                 Get(local_response, "url", None))
             IN  Dict(<< Item("video", Dict(<<
                   Item("url", Or(video_url,
                                  Str(gateway_base \o "/files/" \o job_id \o ".mp4"))),
                   Item("content_type", Str("video/mp4")) >>)) >>)
    ELSE IF route.category \in {"music", "audio", "tts"} THEN
        IF ~IsDict(local_response) THEN NoGet(local_response)
        ELSE LET named == Or(Get(local_response, "audio_url", None),
                             Get(local_response, "url", None))
                 audio_url == IF HasKey(local_response, "data")
                              THEN DataFirst(Get(local_response, "data", None))
                              ELSE named
             IN  IF IsExc(audio_url) THEN audio_url
                 ELSE Dict(<< Item("audio", Dict(<<
                        Item("url", Or(audio_url,
                                       Str(gateway_base \o "/files/" \o job_id \o ".wav"))),
                        Item("content_type", Str("audio/wav")) >>)) >>)
    ELSE IF route.category = "tts" THEN
        IF ~IsDict(local_response) THEN NoGet(local_response)
        ELSE LET audio_url == Or(Get(local_response, "audio_url", None),
                                 Get(local_response, "url", None))
             IN  Dict(<< Item("audio", Dict(<<
                   Item("url", Or(audio_url,
                                  Str(gateway_base \o "/files/" \o job_id \o ".wav"))),
                   Item("content_type", Str("audio/wav")) >>)) >>)
    ELSE local_response

\* transform_response_from_local, had the video fallback left out the gateway
\* base, as line 319 does
transform_response_from_local_RelativeVideo(route, local_response, job_id) ==
    LET gateway_base == GATEWAY_BASE_URL
    IN
    IF route.category = "image" THEN
        IF ~IsDict(local_response) THEN NoGet(local_response)
        ELSE LET direct == Get(local_response, "image_url", None)
                 outputs == Get(local_response, "outputs", Dict(<<>>))
                 image_url ==
                    IF ~Truthy(direct) /\ HasKey(local_response, "outputs")
                    THEN IF ~IsDict(outputs)
                         THEN Exc("AttributeError", "'" \o TypeName(outputs)
                                  \o "' object has no attribute 'values'")
                         ELSE LET found == ScanOutputs(outputs.items, 1)
                              IN  IF found = None THEN direct ELSE found
                    ELSE direct
             IN  IF IsExc(image_url) THEN image_url
                 ELSE Dict(<<
                   Item("images", List(<< Dict(<<
                     Item("url", Or(image_url,
                                    Str(gateway_base \o "/files/" \o job_id \o ".png"))),
                     Item("width", Get(local_response, "width", Num(1024))),
                     Item("height", Get(local_response, "height", Num(1024))),
                     Item("content_type", Str("image/png")) >>) >>)),
                   Item("seed", Get(local_response, "seed", None)),
                   Item("prompt", Get(local_response, "prompt", None)) >>)
    ELSE IF route.category = "video" THEN
        IF ~IsDict(local_response) THEN NoGet(local_response)
        ELSE LET video_url == Or(Get(local_response, "video_url", None),
                                 Get(local_response, "url", None))
             IN  Dict(<< Item("video", Dict(<<
                   Item("url", Or(video_url,
                                  Str("/files/" \o job_id \o ".mp4"))),
                   Item("content_type", Str("video/mp4")) >>)) >>)
    ELSE IF route.category \in {"music", "audio"} THEN
        IF ~IsDict(local_response) THEN NoGet(local_response)
        ELSE LET named == Or(Get(local_response, "audio_url", None),
                             Get(local_response, "url", None))
                 audio_url == IF HasKey(local_response, "data")
                              THEN DataFirst(Get(local_response, "data", None))
                              ELSE named
             IN  IF IsExc(audio_url) THEN audio_url
                 ELSE Dict(<< Item("audio", Dict(<<
                        Item("url", Or(audio_url,
                                       Str(gateway_base \o "/files/" \o job_id \o ".wav"))),
                        Item("content_type", Str("audio/wav")) >>)) >>)
    ELSE IF route.category = "tts" THEN
        IF ~IsDict(local_response) THEN NoGet(local_response)
        ELSE LET audio_url == Or(Get(local_response, "audio_url", None),
                                 Get(local_response, "url", None))
             IN  Dict(<< Item("audio", Dict(<<
                   Item("url", Or(audio_url,
                                  Str(gateway_base \o "/files/" \o job_id \o ".wav"))),
                   Item("content_type", Str("audio/wav")) >>)) >>)
    ELSE local_response

\* transform_response_from_local: the reshaped response, or the exception raised
transform_response_from_local(route, local_response, job_id) ==
    LET gateway_base == GATEWAY_BASE_URL
    IN
    IF route.category = "image" THEN
        IF ~IsDict(local_response) THEN NoGet(local_response)
        ELSE LET direct == Get(local_response, "image_url", None)
                 outputs == Get(local_response, "outputs", Dict(<<>>))
                 image_url ==
                    IF ~Truthy(direct) /\ HasKey(local_response, "outputs")
                    THEN IF ~IsDict(outputs)
                         THEN Exc("AttributeError", "'" \o TypeName(outputs)
                                  \o "' object has no attribute 'values'")
                         ELSE LET found == ScanOutputs(outputs.items, 1)
                              IN  IF found = None THEN direct ELSE found
                    ELSE direct
             IN  IF IsExc(image_url) THEN image_url
                 ELSE Dict(<<
                   Item("images", List(<< Dict(<<
                     Item("url", Or(image_url,
                                    Str(gateway_base \o "/files/" \o job_id \o ".png"))),
                     Item("width", Get(local_response, "width", Num(1024))),
                     Item("height", Get(local_response, "height", Num(1024))),
                     Item("content_type", Str("image/png")) >>) >>)),
                   Item("seed", Get(local_response, "seed", None)),
                   Item("prompt", Get(local_response, "prompt", None)) >>)
    ELSE IF route.category = "video" THEN
        IF ~IsDict(local_response) THEN NoGet(local_response)
        ELSE LET video_url == Or(Get(local_response, "video_url", None),
                                 Get(local_response, "url", None))
             IN  Dict(<< Item("video", Dict(<<
                   Item("url", Or(video_url,
                                  Str(gateway_base \o "/files/" \o job_id \o ".mp4"))),
                   Item("content_type", Str("video/mp4")) >>)) >>)
    ELSE IF route.category \in {"music", "audio"} THEN
        IF ~IsDict(local_response) THEN NoGet(local_response)
        ELSE LET named == Or(Get(local_response, "audio_url", None),
                             Get(local_response, "url", None))
                 audio_url == IF HasKey(local_response, "data")
                              THEN DataFirst(Get(local_response, "data", None))
                              ELSE named
             IN  IF IsExc(audio_url) THEN audio_url
                 ELSE Dict(<< Item("audio", Dict(<<
                        Item("url", Or(audio_url,
                                       Str(gateway_base \o "/files/" \o job_id \o ".wav"))),
                        Item("content_type", Str("audio/wav")) >>)) >>)
    ELSE IF route.category = "tts" THEN
        IF ~IsDict(local_response) THEN NoGet(local_response)
        ELSE LET audio_url == Or(Get(local_response, "audio_url", None),
                                 Get(local_response, "url", None))
             IN  Dict(<< Item("audio", Dict(<<
                   Item("url", Or(audio_url,
                                  Str(gateway_base \o "/files/" \o job_id \o ".wav"))),
                   Item("content_type", Str("audio/wav")) >>)) >>)
    ELSE local_response

(***************************************************************************)
(* State                                                                   *)
(***************************************************************************)
VARIABLES
    jobs,     \* the job store: job id -> job dict (a function of its keys)
    tasks,    \* job id -> the process_job coroutine created for it
    media,    \* names of the files written under MEDIA_DIR
    now,      \* time.time()
    nextId,   \* number of uuid4 values drawn so far, plus one
    last,     \* the HTTP response produced by the step just taken, or what
              \* a function that the step called directly returned
    backend_status,  \* tts_router_service.py: the module-level status record
    speech    \* tts_router_service.py: request number -> its create_speech
              \* coroutine

vars == <<jobs, tasks, media, now, nextId, last, backend_status, speech>>

\* tts_router_service.py lines 30-34: the status record as the module
\* creates it, and no speech request received
NoStatus ==
    [riva |-> "unknown", kokoro |-> "unknown", active |-> NoName]
RouterIdle ==
    /\ backend_status = NoStatus
    /\ speech = [x \in {} |-> None]

\* UUID, had the id been drawn once, when the module is loaded
UUID_Once(n) == "uuid-" \o ToString(1)

\* str(uuid.uuid4()): the n-th value drawn; values are never drawn twice
UUID(n) == "uuid-" \o ToString(n)
JobIds == {UUID(n) : n \in 1..MaxJobs}

\* d[key] = val on a dict held as a function of its keys
SetKey(d, key, val) ==
    [x \in (DOMAIN d) \cup {key} |-> IF x = key THEN val ELSE d[x]]
\* del d[key]
DelKey(d, key) == [x \in (DOMAIN d) \ {key} |-> d[x]]

\* an HTTP response: the handler that answered, the id it was asked about,
\* the status code and the body
Response(op, id, code, body) == [op |-> op, id |-> id, code |-> code, body |-> body]
\* no response was produced by the step
NoResponse == Response("none", "", 0, None)
\* raise HTTPException(status_code, detail)
HTTPException(op, id, status_code, detail) ==
    Response(op, id, status_code, Dict(<<Item("detail", detail)>>))
\* an exception that leaves a handler is answered by the framework with 500
Unhandled(op, id) == Response(op, id, 500, Str("Internal Server Error"))

(***************************************************************************)
(* Backend outcomes of `await http_client.post(url, json=local_request)`   *)
(***************************************************************************)
\* httpx.RequestError (connect, DNS, timeout): str(e)
RequestError(msg) == [kind |-> "request_error", msg |-> msg]
\* a response: status code, content-type header, body text, and what
\* response.json() gives for that body (a value, or the decode error)
BackendResponse(status_code, content_type, text, json) ==
    [kind |-> "response", status_code |-> status_code,
     content_type |-> content_type, text |-> text, json |-> json]
NotJson == Exc("JSONDecodeError", "Expecting value: line 1 column 1 (char 0)")

(***************************************************************************)
(* main.py: process_job, split at its one suspension point                 *)
(***************************************************************************)
\* str(KeyError(job_id)), raised by jobs[job_id] when the record is gone
KeyError(job_id) == Exc("KeyError", "'" \o job_id \o "'")

\* the state of a process_job coroutine
Task(pc, sync, endpoint_id, route, request_data, local_request, posts, exc) ==
    [pc |-> pc, sync |-> sync, endpoint_id |-> endpoint_id, route |-> route,
     request_data |-> request_data, local_request |-> local_request,
     posts |-> posts, exc |-> exc]

\* a coroutine that has ended holds no arguments or locals any more; what is
\* kept is how it was run (inline or in the background), how it ended
\* (returned, or the exception that left it) and the number of backend POSTs
\* it issued
Ended(pc, sync, posts, exc) == Task(pc, sync, "", NoRoute, None, None, posts, exc)

\* RecordFailure, had the except clauses only logged the failure
RecordFailure_LogOnly(store, files, job_id, error_msg) ==
    IF job_id \in DOMAIN store
    THEN [jobs |-> store, media |-> files, pc |-> "done", exc |-> None]
    ELSE [jobs |-> store, media |-> files, pc |-> "raised", exc |-> KeyError(job_id)]

\* RecordFailure, had a failed attempt put the job back in the queue
RecordFailure_Requeue(store, files, job_id, error_msg) ==
    IF job_id \in DOMAIN store
    THEN [jobs |-> [store EXCEPT ![job_id] =
                      SetKey(SetKey(@, "status", "pending"), "error", Str(error_msg))],
          media |-> files, pc |-> "done", exc |-> None]
    ELSE [jobs |-> store, media |-> files, pc |-> "raised", exc |-> KeyError(job_id)]

\* RecordFailure, had the record of a failed job been dropped from the store
RecordFailure_Drop(store, files, job_id, error_msg) ==
    IF job_id \in DOMAIN store
    THEN [jobs |-> DelKey(store, job_id), media |-> files, pc |-> "done", exc |-> None]
    ELSE [jobs |-> store, media |-> files, pc |-> "raised", exc |-> KeyError(job_id)]

\* jobs[job_id]["status"] = "failed"; jobs[job_id]["error"] = error_msg, as the
\* three except clauses do it; a missing record raises KeyError out of the clause
RecordFailure(store, files, job_id, error_msg) ==
    IF job_id \in DOMAIN store
    THEN [jobs |-> [store EXCEPT ![job_id] =
                      SetKey(SetKey(@, "status", "failed"), "error", Str(error_msg))],
          media |-> files, pc |-> "done", exc |-> None]
    ELSE [jobs |-> store, media |-> files, pc |-> "raised", exc |-> KeyError(job_id)]

\* StartJob, had it written the record with jobs.setdefault(job_id, {})
StartJob_Upsert(store, job_id, endpoint_id, route, request_data, t, client_id) ==
    LET present == IF job_id \in DOMAIN store THEN store
                   ELSE SetKey(store, job_id, [request_id |-> job_id])
        started == [present EXCEPT ![job_id] =
                      SetKey(SetKey(@, "status", "processing"), "started_at", t)]
        local_request ==
           transform_request_to_local(endpoint_id, route, request_data, t, client_id)
    IN  IF IsExc(local_request)
        THEN [jobs |-> RecordFailure(started, {}, job_id, local_request.msg).jobs,
              pc |-> "done", exc |-> None, local_request |-> None, posts |-> 0]
        ELSE [jobs |-> started, pc |-> "awaiting", exc |-> None,
              local_request |-> local_request, posts |-> 1]

\* lines 295-306: from the entry of process_job to the backend POST
StartJob(store, job_id, endpoint_id, route, request_data, t, client_id) ==
    IF job_id \notin DOMAIN store
    THEN [jobs |-> store, pc |-> "raised", exc |-> KeyError(job_id),
          local_request |-> None, posts |-> 0]
    ELSE LET started == [store EXCEPT ![job_id] =
                           SetKey(SetKey(@, "status", "processing"), "started_at", t)]
             local_request ==
                transform_request_to_local(endpoint_id, route, request_data, t, client_id)
         IN  IF IsExc(local_request)
             THEN [jobs |-> RecordFailure(started, {}, job_id, local_request.msg).jobs,
                   pc |-> "done", exc |-> None, local_request |-> None, posts |-> 0]
             ELSE [jobs |-> started, pc |-> "awaiting", exc |-> None,
                   local_request |-> local_request, posts |-> 1]

\* Classify, had the content type been tested for video before audio
Classify_VideoFirst(files, job_id, response) ==
    LET content_type == response.content_type
    IN  IF Contains(content_type, "application/json")
        THEN [local_response |-> response.json, media |-> files]
        ELSE IF \/ Contains(content_type, "audio")
                \/ Contains(content_type, "video")
                \/ Contains(content_type, "image")
        THEN LET ext == IF Contains(content_type, "video") THEN "mp4"
                        ELSE IF Contains(content_type, "audio") THEN "wav" ELSE "png"
             IN  [local_response |->
                    Dict(<<Item("url", Str("/files/" \o job_id \o "." \o ext))>>),
                  media |-> files \cup {job_id \o "." \o ext}]
        ELSE [local_response |-> Dict(<<Item("raw", Str(response.text))>>),
              media |-> files]

\* lines 309-321: the local response of a 2xx backend response, the files
\* written for it, or the exception raised
Classify(files, job_id, response) ==
    LET content_type == response.content_type
    IN  IF Contains(content_type, "application/json")
        THEN [local_response |-> response.json, media |-> files]
        ELSE IF \/ Contains(content_type, "audio")
                \/ Contains(content_type, "video")
                \/ Contains(content_type, "image")
        THEN LET ext == IF Contains(content_type, "audio") THEN "wav"
                        ELSE IF Contains(content_type, "video") THEN "mp4" ELSE "png"
             IN  [local_response |->
                    Dict(<<Item("url", Str("/files/" \o job_id \o "." \o ext))>>),
                  media |-> files \cup {job_id \o "." \o ext}]
        ELSE [local_response |-> Dict(<<Item("raw", Str(response.text))>>),
              media |-> files]

\* FinishJob, had it stored the local response as the result before reshaping it
FinishJob_StoreFirst(store, files, job_id, route, outcome, t) ==
    IF outcome.kind = "request_error"
    THEN RecordFailure(store, files, job_id, "Connection error: " \o outcome.msg)
    ELSE IF ~(200 <= outcome.status_code /\ outcome.status_code <= 299)
    THEN RecordFailure(store, files, job_id,
            "Container error: " \o ToString(outcome.status_code)
            \o (IF IsExc(outcome.json) THEN "" ELSE " - " \o PyStr(outcome.json)))
    ELSE LET classified == Classify(files, job_id, outcome)
             stored == IF job_id \in DOMAIN store /\ ~IsExc(classified.local_response)
                       THEN [store EXCEPT ![job_id] =
                               SetKey(@, "result", classified.local_response)]
                       ELSE store
             fal_response ==
                IF IsExc(classified.local_response) THEN classified.local_response
                ELSE transform_response_from_local(route, classified.local_response, job_id)
         IN  IF IsExc(fal_response)
             THEN RecordFailure(stored, classified.media, job_id, fal_response.msg)
             ELSE IF job_id \in DOMAIN store
             THEN [jobs |-> [store EXCEPT ![job_id] =
                               SetKey(SetKey(SetKey(@, "status", "completed"),
                                             "result", fal_response),
                                      "completed_at", t)],
                   media |-> classified.media, pc |-> "done", exc |-> None]
             ELSE RecordFailure(store, classified.media, job_id, KeyError(job_id).msg)

\* lines 306-351: from the return of the backend POST to the end of process_job
FinishJob(store, files, job_id, route, outcome, t) ==
    IF outcome.kind = "request_error"
    THEN RecordFailure(store, files, job_id, "Connection error: " \o outcome.msg)
    ELSE IF ~(200 <= outcome.status_code /\ outcome.status_code <= 299)
    THEN RecordFailure(store, files, job_id,
            "Container error: " \o ToString(outcome.status_code)
            \o (IF IsExc(outcome.json) THEN "" ELSE " - " \o PyStr(outcome.json)))
    ELSE LET classified == Classify(files, job_id, outcome)
             fal_response ==
                IF IsExc(classified.local_response) THEN classified.local_response
                ELSE transform_response_from_local(route, classified.local_response, job_id)
         IN  IF IsExc(fal_response)
             THEN RecordFailure(store, classified.media, job_id, fal_response.msg)
             ELSE IF job_id \in DOMAIN store
             THEN [jobs |-> [store EXCEPT ![job_id] =
                               SetKey(SetKey(SetKey(@, "status", "completed"),
                                             "result", fal_response),
                                      "completed_at", t)],
                   media |-> classified.media, pc |-> "done", exc |-> None]
             ELSE RecordFailure(store, classified.media, job_id, KeyError(job_id).msg)

(***************************************************************************)
(* main.py: the request handlers                                           *)
(***************************************************************************)
\* IsNoRoute, had generate not tested the route it got
IsNoRoute_Unchecked(route) == FALSE

\* line 397: `not route`
IsNoRoute(route) == "none" \in DOMAIN route

\* a request body: the JSON value it holds, when it holds one
Body(valid, value) == [valid |-> valid, value |-> value]

\* ParseBody, had the except clause left request_data as None
ParseBody_None(body) == IF body.valid THEN body.value ELSE None

\* lines 404-407: await request.json(), {} when it raises
ParseBody(body) == IF body.valid THEN body.value ELSE Dict(<<>>)

\* NewJob, had the record been created as already processing
NewJob_InProgress(job_id, endpoint_id, t) ==
    [request_id |-> job_id, endpoint_id |-> endpoint_id, status |-> "processing",
     created_at |-> t, result |-> None, error |-> None]

\* lines 414-421
NewJob(job_id, endpoint_id, t) ==
    [request_id |-> job_id, endpoint_id |-> endpoint_id, status |-> "pending",
     created_at |-> t, result |-> None, error |-> None]

\* lines 426-431: what generate answers once `await process_job(...)` is over
SyncReply(store, job_id, pc) ==
    IF pc = "raised" \/ job_id \notin DOMAIN store
    THEN Unhandled("generate", job_id)
    ELSE IF store[job_id]["status"] = "failed"
    THEN HTTPException("generate", job_id, 500, store[job_id]["error"])
    ELSE Response("generate", job_id, 200, store[job_id]["result"])

\* lines 437-442
AsyncReply(job_id) ==
    Response("generate", job_id, 200,
             Dict(<< Item("request_id", Str(job_id)),
                     Item("status", Str("pending")),
                     Item("status_url", Str("/status/" \o job_id)),
                     Item("result_url", Str("/result/" \o job_id)) >>))

\* POST /{endpoint_id}.  A synchronous submission runs process_job inline up
\* to the backend POST; it answers in this step only when no POST is issued.
generate(endpoint_id, body, sync, client_id) ==
    LET route == get_route(endpoint_id)
        request_data == ParseBody(body)
        job_id == UUID(nextId)
        created == SetKey(jobs, job_id, NewJob(job_id, endpoint_id, now))
        st == StartJob(created, job_id, endpoint_id, route, request_data, now, client_id)
    IN  IF IsNoRoute(route)
        THEN /\ last' = HTTPException("generate", "", 404,
                            Str("Unknown endpoint: " \o endpoint_id
                                \o ". Use /endpoints to list available."))
             /\ UNCHANGED <<jobs, tasks, media, now, nextId, backend_status, speech>>
        ELSE /\ nextId' = nextId + 1
             /\ IF sync
                THEN /\ jobs' = st.jobs
                     /\ tasks' = SetKey(tasks, job_id,
                                   IF st.pc = "awaiting"
                                   THEN Task(st.pc, TRUE, endpoint_id, route,
                                             request_data, st.local_request, st.posts,
                                             st.exc)
                                   ELSE Ended(st.pc, TRUE, st.posts, st.exc))
                     /\ last' = IF st.pc = "awaiting" THEN NoResponse
                                ELSE SyncReply(st.jobs, job_id, st.pc)
                ELSE /\ jobs' = created
                     /\ tasks' = SetKey(tasks, job_id,
                                   Task("queued", FALSE, endpoint_id, route, request_data,
                                        None, 0, None))
                     /\ last' = AsyncReply(job_id)
             /\ UNCHANGED <<media, now, backend_status, speech>>

\* the background task of an asynchronous submission begins: process_job up
\* to the backend POST
process_job_start(job_id, client_id) ==
    /\ job_id \in DOMAIN tasks
    /\ tasks[job_id].pc = "queued"
    /\ LET task == tasks[job_id]
           st == StartJob(jobs, job_id, task.endpoint_id, task.route,
                          task.request_data, now, client_id)
       IN  /\ jobs' = st.jobs
           /\ tasks' = [tasks EXCEPT ![job_id] =
                          IF st.pc = "awaiting"
                          THEN Task(st.pc, task.sync, task.endpoint_id, task.route,
                                    task.request_data, st.local_request, st.posts,
                                    st.exc)
                          ELSE Ended(st.pc, task.sync, st.posts, st.exc)]
    /\ last' = NoResponse
    /\ UNCHANGED <<media, now, nextId, backend_status, speech>>

\* process_job_resume, had a failed attempt been sent to the backend once more
process_job_resume_retry(job_id, outcome) ==
    /\ job_id \in DOMAIN tasks
    /\ tasks[job_id].pc = "awaiting"
    /\ LET task == tasks[job_id]
           fin == FinishJob(jobs, media, job_id, task.route, outcome, now)
           failed == \/ outcome.kind = "request_error"
                     \/ ~(200 <= outcome.status_code /\ outcome.status_code <= 299)
       IN  IF failed /\ task.posts < 2
           THEN /\ tasks' = [tasks EXCEPT ![job_id].posts = task.posts + 1]
                /\ last' = NoResponse
                /\ UNCHANGED <<jobs, media>>
           ELSE /\ jobs' = fin.jobs
                /\ media' = fin.media
                /\ tasks' = [tasks EXCEPT ![job_id] =
                               Ended(fin.pc, task.sync, task.posts, fin.exc)]
                /\ last' = IF task.sync THEN SyncReply(fin.jobs, job_id, fin.pc)
                           ELSE NoResponse
    /\ UNCHANGED <<now, nextId, backend_status, speech>>

\* process_job_resume, had the backend calls been served one at a time in
\* the order of submission
process_job_resume_fifo(job_id, outcome) ==
    /\ job_id \in DOMAIN tasks
    /\ tasks[job_id].pc = "awaiting"
    /\ \A n \in 1..nextId :
          (UUID(n) \in DOMAIN tasks /\ tasks[UUID(n)].pc = "awaiting") =>
             \E m \in 1..n : UUID(m) = job_id
    /\ LET task == tasks[job_id]
           fin == FinishJob(jobs, media, job_id, task.route, outcome, now)
       IN  /\ jobs' = fin.jobs
           /\ media' = fin.media
           /\ tasks' = [tasks EXCEPT ![job_id] =
                          Ended(fin.pc, task.sync, task.posts, fin.exc)]
           /\ last' = IF task.sync THEN SyncReply(fin.jobs, job_id, fin.pc)
                      ELSE NoResponse
    /\ UNCHANGED <<now, nextId, backend_status, speech>>

\* the backend POST of a job returns with `outcome`: process_job to its end,
\* and for a synchronous submission the rest of generate
process_job_resume(job_id, outcome) ==
    /\ job_id \in DOMAIN tasks
    /\ tasks[job_id].pc = "awaiting"
    /\ LET task == tasks[job_id]
           fin == FinishJob(jobs, media, job_id, task.route, outcome, now)
       IN  /\ jobs' = fin.jobs
           /\ media' = fin.media
           /\ tasks' = [tasks EXCEPT ![job_id] =
                          Ended(fin.pc, task.sync, task.posts, fin.exc)]
           /\ last' = IF task.sync THEN SyncReply(fin.jobs, job_id, fin.pc)
                      ELSE NoResponse
    /\ UNCHANGED <<now, nextId, backend_status, speech>>

\* get_status, had it looked the job up with jobs.setdefault(request_id, ...)
get_status_setdefault(request_id) ==
    /\ jobs' = IF request_id \in DOMAIN jobs THEN jobs
               ELSE SetKey(jobs, request_id, NewJob(request_id, "", now))
    /\ last' = Response("get_status", request_id, 200,
                        Dict(<< Item("request_id", Str(request_id)),
                                Item("status", Str(jobs'[request_id]["status"])) >>))
    /\ UNCHANGED <<tasks, media, now, nextId, backend_status, speech>>

\* GET /status/{request_id}
get_status(request_id) ==
    /\ last' = IF request_id \notin DOMAIN jobs
               THEN HTTPException("get_status", request_id, 404, Str("Job not found"))
               ELSE Response("get_status", request_id, 200,
                             Dict(<< Item("request_id", Str(request_id)),
                                     Item("status", Str(jobs[request_id]["status"])) >>))
    /\ UNCHANGED <<jobs, tasks, media, now, nextId, backend_status, speech>>

\* get_result, had it answered 202 for a pending job only
get_result_eager(request_id) ==
    /\ last' = IF request_id \notin DOMAIN jobs
               THEN HTTPException("get_result", request_id, 404, Str("Job not found"))
               ELSE LET job == jobs[request_id]
                    IN  IF job["status"] = "pending"
                        THEN Response("get_result", request_id, 202,
                                 Dict(<< Item("status", Str(job["status"])),
                                         Item("message", Str("Job still processing")) >>))
                        ELSE IF job["status"] = "failed"
                        THEN HTTPException("get_result", request_id, 500, job["error"])
                        ELSE Response("get_result", request_id, 200, job["result"])
    /\ UNCHANGED <<jobs, tasks, media, now, nextId, backend_status, speech>>

\* get_result, had it handed the result out once and cleared it
get_result_pop(request_id) ==
    /\ last' = IF request_id \notin DOMAIN jobs
               THEN HTTPException("get_result", request_id, 404, Str("Job not found"))
               ELSE LET job == jobs[request_id]
                    IN  IF job["status"] = "pending" \/ job["status"] = "processing"
                        THEN Response("get_result", request_id, 202,
                                 Dict(<< Item("status", Str(job["status"])),
                                         Item("message", Str("Job still processing")) >>))
                        ELSE IF job["status"] = "failed"
                        THEN HTTPException("get_result", request_id, 500, job["error"])
                        ELSE Response("get_result", request_id, 200, job["result"])
    /\ jobs' = IF request_id \in DOMAIN jobs /\ jobs[request_id]["status"] = "completed"
               THEN [jobs EXCEPT ![request_id] = SetKey(@, "result", None)]
               ELSE jobs
    /\ UNCHANGED <<tasks, media, now, nextId, backend_status, speech>>

\* GET /result/{request_id}
get_result(request_id) ==
    /\ last' = IF request_id \notin DOMAIN jobs
               THEN HTTPException("get_result", request_id, 404, Str("Job not found"))
               ELSE LET job == jobs[request_id]
                    IN  IF job["status"] = "pending" \/ job["status"] = "processing"
                        THEN Response("get_result", request_id, 202,
                                 Dict(<< Item("status", Str(job["status"])),
                                         Item("message", Str("Job still processing")) >>))
                        ELSE IF job["status"] = "failed"
                        THEN HTTPException("get_result", request_id, 500, job["error"])
                        ELSE Response("get_result", request_id, 200, job["result"])
    /\ UNCHANGED <<jobs, tasks, media, now, nextId, backend_status, speech>>

\* cancel_job, had it emptied the store with jobs.clear()
cancel_job_clear(request_id) ==
    /\ IF request_id \notin DOMAIN jobs
       THEN /\ last' = HTTPException("cancel_job", request_id, 404, Str("Job not found"))
            /\ UNCHANGED jobs
       ELSE /\ jobs' = [x \in {} |-> None]
            /\ last' = Response("cancel_job", request_id, 200,
                                Dict(<<Item("status", Str("cancelled"))>>))
    /\ UNCHANGED <<tasks, media, now, nextId, backend_status, speech>>

\* DELETE /jobs/{request_id}
cancel_job(request_id) ==
    /\ IF request_id \notin DOMAIN jobs
       THEN /\ last' = HTTPException("cancel_job", request_id, 404, Str("Job not found"))
            /\ UNCHANGED jobs
       ELSE /\ jobs' = DelKey(jobs, request_id)
            /\ last' = Response("cancel_job", request_id, 200,
                                Dict(<<Item("status", Str("cancelled"))>>))
    /\ UNCHANGED <<tasks, media, now, nextId, backend_status, speech>>

\* the wall clock advances
Tick ==
    /\ now < 1 + MaxTime
    /\ now' = now + 1
    /\ last' = NoResponse
    /\ UNCHANGED <<jobs, tasks, media, nextId, backend_status, speech>>

(***************************************************************************)
(* The inputs of the model                                                 *)
(***************************************************************************)
\* endpoint ids submitted: a configured route and an unknown id
Endpoints == {"fal-ai/flux/schnell", "fal-ai/no-such-model"}

\* request bodies: a JSON object, a JSON array, and a body that is not JSON
ObjectBody ==
    Body(TRUE, Dict(<< Item("prompt", Str("a red fox")),
                       Item("image_size", Dict(<< Item("width", Num(512)),
                                                  Item("height", Num(512)) >>)) >>))
ArrayBody == Body(TRUE, List(<<Num(1)>>))
GarbageBody == Body(FALSE, None)
Bodies == {ObjectBody, ArrayBody, GarbageBody}

ClientIds == {"client-uuid"}

\* what the backend can answer
Outcomes ==
    { RequestError("All connection attempts failed"),
      BackendResponse(500, "application/json", "{\"detail\": \"out of memory\"}",
                      Dict(<<Item("detail", Str("out of memory"))>>)),
      BackendResponse(200, "application/json", "{\"url\": \"http://backend/out\"}",
                      Dict(<<Item("url", Str("http://backend/out"))>>)),
      BackendResponse(200, "application/json", "[1]", List(<<Num(1)>>)),
      BackendResponse(200, "audio/wav", "RIFF", NotJson) }

(***************************************************************************)
(* Specification                                                           *)
(***************************************************************************)
Init ==
    /\ jobs = [x \in {} |-> None]
    /\ tasks = [x \in {} |-> None]
    /\ media = {}
    /\ now = 1
    /\ nextId = 1
    /\ last = NoResponse
    /\ RouterIdle

\* the model accepts max submissions in one behaviour; a submission that is
\* answered 404 draws no job id and is not counted
Accepts(endpoint_id, max) == IsNoRoute(get_route(endpoint_id)) \/ nextId <= max

Next ==
    \/ \E e \in Endpoints, b \in Bodies, sync \in BOOLEAN, c \in ClientIds :
          Accepts(e, MaxJobs) /\ generate(e, b, sync, c)
    \/ \E id \in JobIds, c \in ClientIds : process_job_start(id, c)
    \/ \E id \in JobIds, o \in Outcomes : process_job_resume(id, o)
    \/ \E id \in JobIds : get_status(id)
    \/ \E id \in JobIds : get_result(id)
    \/ \E id \in JobIds : cancel_job(id)
    \/ Tick

Spec == Init /\ [][Next]_vars

\* the backend call of every job returns (the client's timeout bounds it) and
\* the event loop runs every task that is ready
Fairness ==
    \A id \in JobIds :
        /\ WF_vars(\E c \in ClientIds : process_job_start(id, c))
        /\ WF_vars(\E o \in Outcomes : process_job_resume(id, o))

LiveSpec == Spec /\ Fairness

(***************************************************************************)
(* The handlers over a store that holds several jobs: every job was        *)
(* submitted in the background and has got as far as its stage says        *)
(***************************************************************************)
StoredIds == {UUID(n) : n \in 1..MaxStored}
\* a request id that was never given out
UnknownId == "uuid-0"

\* how far a job has got: not begun, waiting for the backend, or ended by an
\* answer of the backend
Stages ==
    {[at |-> "queued"], [at |-> "awaiting"]}
        \cup {[at |-> "ended", outcome |-> o] : o \in Outcomes}

\* the record, the coroutine and the files of a job whose POST is in flight,
\* from what StartJob returned
AwaitingJob(st, job_id, endpoint_id, route, request_data) ==
    [job |-> st.jobs[job_id],
     task |-> Task(st.pc, FALSE, endpoint_id, route, request_data,
                   st.local_request, st.posts, st.exc),
     media |-> {}]

\* the same for a job whose execution has ended, from what FinishJob returned
EndedJob(fin, job_id) ==
    [job |-> fin.jobs[job_id],
     task |-> Ended(fin.pc, FALSE, 1, fin.exc),
     media |-> fin.media]

\* the record, the coroutine and the files of a job at a stage, as generate
\* and process_job leave them
StoredJob(job_id, stage) ==
    LET endpoint_id == "fal-ai/flux/schnell"
        route == get_route(endpoint_id)
        request_data == ParseBody(ObjectBody)
        created == SetKey([x \in {} |-> None], job_id, NewJob(job_id, endpoint_id, 1))
        st == StartJob(created, job_id, endpoint_id, route, request_data, 1,
                       "client-uuid")
    IN  CASE stage.at = "queued" ->
               [job |-> created[job_id],
                task |-> Task("queued", FALSE, endpoint_id, route, request_data,
                              None, 0, None),
                media |-> {}]
          [] stage.at = "awaiting" ->
               AwaitingJob(st, job_id, endpoint_id, route, request_data)
          [] OTHER ->
               EndedJob(FinishJob(st.jobs, {}, job_id, route, stage.outcome, 1), job_id)

\* the store, the coroutines and the media store that hold the given jobs
StoreOf(stored) ==
    /\ jobs = [id \in StoredIds |-> stored[id].job]
    /\ tasks = [id \in StoredIds |-> stored[id].task]
    /\ media = UNION {stored[id].media : id \in StoredIds}
    /\ now = 1
    /\ nextId = MaxStored + 1
    /\ last = NoResponse
    /\ RouterIdle

StoreInit ==
    \E stage \in [StoredIds -> Stages] :
        StoreOf([id \in StoredIds |-> StoredJob(id, stage[id])])

StoreNext ==
    \/ \E id \in StoredIds \cup {UnknownId} : get_status(id)
    \/ \E id \in StoredIds \cup {UnknownId} : get_result(id)
    \/ \E id \in StoredIds \cup {UnknownId} : cancel_job(id)

StoreSpec == StoreInit /\ [][StoreNext]_vars

(***************************************************************************)
(* get_route and list_available_endpoints, run over route tables           *)
(***************************************************************************)
\* keys a table is built from: exact ids and patterns ending in "*"
RouteKeys ==
    { "fal-ai/kling-video/v1/standard",
      "fal-ai/kling-video/*",
      "fal-ai/kling-video/v1*",
      "fal-ai/*",
      "fal-ai/veo2" }

\* endpoint ids looked up; one of them is spelled like a pattern
RouteIds ==
    { "fal-ai/kling-video/v1/standard",
      "fal-ai/kling-video/v2/master",
      "fal-ai/veo2",
      "fal-ai/kling-video/*",
      "other/model" }

\* the config registered at position i of a table
TableConfig(i) ==
    RouteConfig("http://backend-" \o ToString(i) \o ":8000", "/generate", "video", NoName)

\* a dict has no key twice: the tables are the sequences of up to MaxRoutes
\* distinct keys, in every insertion order, and the configured table
Tables ==
    {ROUTE_MAP} \cup
    UNION { { [i \in 1..n |-> [key |-> ks[i], config |-> TableConfig(i)]] :
                ks \in {f \in [1..n -> RouteKeys] :
                           \A i, j \in 1..n : f[i] = f[j] => i = j} } :
            n \in 0..MaxRoutes }

\* the ids looked up in a table
IdsFor(table) ==
    IF table = ROUTE_MAP
    THEN RouteIds \cup {ROUTE_MAP[i].key : i \in 1..Len(ROUTE_MAP)}
    ELSE RouteIds

\* what a function called directly returned: the table it read, the id it was
\* given and the value it returned
Returned(op, table, id, value) ==
    [op |-> op, id |-> id, code |-> 0, body |-> value, table |-> table]

\* get_route(endpoint_id), run with ROUTE_MAP = table
call_get_route(table, endpoint_id) ==
    /\ last' = Returned("get_route", table, endpoint_id, RouteIn(table, endpoint_id))
    /\ UNCHANGED <<jobs, tasks, media, now, nextId, backend_status, speech>>

\* GET /endpoints
endpoints ==
    /\ last' = Response("endpoints", "", 200,
                  Dict(<<Item("endpoints",
                              List([i \in 1..Len(list_available_endpoints) |->
                                       Str(list_available_endpoints[i])]))>>))
    /\ UNCHANGED <<jobs, tasks, media, now, nextId, backend_status, speech>>

RouteNext ==
    \/ \E table \in Tables : \E e \in IdsFor(table) : call_get_route(table, e)
    \/ endpoints

RouteSpec == Init /\ [][RouteNext]_vars

(***************************************************************************)
(* The end of process_job for every route category and backend answer: a   *)
(* job is submitted on a route of each category, its POST is in flight     *)
(***************************************************************************)
\* one configured endpoint of each category: image, video, music, audio, tts
CategoryEndpoints ==
    { "fal-ai/flux/schnell", "fal-ai/veo2", "fal-ai/stable-audio",
      "fal-ai/mmaudio-v2", "fal-ai/f5-tts" }

\* a 200 answer with a JSON body
JsonAnswer(content_type, json) == BackendResponse(200, content_type, Repr(json), json)
\* a 200 answer whose body is not JSON
BodyAnswer(content_type, text) == BackendResponse(200, content_type, text, NotJson)

\* the 2xx answers of the backend: JSON bodies of the shapes the backends
\* use, media bodies, text, no content type, and content types that hold more
\* than one of the words tested
Answers ==
    { JsonAnswer("application/json", Dict(<<>>)),
      JsonAnswer("application/json", Dict(<<Item("url", Str("http://backend/out"))>>)),
      JsonAnswer("application/json",
                 Dict(<< Item("audio_url", Str("http://backend/a.wav")),
                         Item("url", Str("http://backend/out")) >>)),
      JsonAnswer("application/json",
                 Dict(<<Item("data", List(<<Str("http://x/y.wav")>>))>>)),
      JsonAnswer("application/json",
                 Dict(<< Item("data", List(<<Str("http://x/y.wav")>>)),
                         Item("audio_url", Str("http://backend/a.wav")) >>)),
      JsonAnswer("application/json",
                 Dict(<< Item("data", List(<<>>)),
                         Item("audio_url", Str("http://backend/a.wav")) >>)),
      JsonAnswer("application/json; charset=utf-8; profile=audio",
                 Dict(<<Item("video_url", Str("http://backend/v.mp4"))>>)),
      BodyAnswer("application/json", "<html>"),
      BodyAnswer("audio/wav", "RIFF"),
      BodyAnswer("video/mp4", "ftyp"),
      BodyAnswer("image/png", "PNG"),
      BodyAnswer("video/mp4; audio=aac", "ftyp"),
      BodyAnswer("image/apng; video=no", "PNG"),
      BodyAnswer("text/plain", "done"),
      BodyAnswer("", "done") }

\* generate, and process_job up to its POST, for the first job of a gateway
InFlight(job_id, endpoint_id, sync) ==
    LET route == get_route(endpoint_id)
        request_data == ParseBody(ObjectBody)
        created == SetKey([x \in {} |-> None], job_id, NewJob(job_id, endpoint_id, 1))
        st == StartJob(created, job_id, endpoint_id, route, request_data, 1,
                       "client-uuid")
    IN  [jobs |-> st.jobs,
         tasks |-> SetKey([x \in {} |-> None], job_id,
                          Task(st.pc, sync, endpoint_id, route, request_data,
                               st.local_request, st.posts, st.exc))]

BackendInit ==
    \E e \in CategoryEndpoints, sync \in BOOLEAN :
        /\ jobs = InFlight(UUID(1), e, sync).jobs
        /\ tasks = InFlight(UUID(1), e, sync).tasks
        /\ tasks[UUID(1)].pc = "awaiting"
        /\ media = {}
        /\ now = 1
        /\ nextId = 2
        /\ last = NoResponse
        /\ RouterIdle

BackendNext ==
    \/ \E id \in JobIds, o \in Answers : process_job_resume(id, o)
    \/ \E id \in JobIds : get_status(id)
    \/ \E id \in JobIds : get_result(id)
    \/ \E id \in JobIds : cancel_job(id)
    \/ Tick

BackendSpec == BackendInit /\ [][BackendNext]_vars

(***************************************************************************)
(* transform_request_to_local, applied to routes and request values        *)
(***************************************************************************)
\* values of RouteConfig.transform_request: none, the six names the function
\* tests for, and names it does not test for (one with the comfyui prefix)
TransformNames ==
    { NoName, "comfyui_flux", "comfyui_flux_schnell", "comfyui_flux_ultra",
      "comfyui_sd35", "gradio_audiocraft", "kokoro_tts",
      "comfyui_custom", "custom" }

\* values of RouteConfig.category: the five of the route table and another
Categories == {"image", "video", "music", "audio", "tts", "other"}

\* the routes the function is applied to
TransformRoutes ==
    { RouteConfig("http://backend:8000", "/generate", category, name) :
         category \in Categories, name \in TransformNames }

\* the values of request_data: what request.json() returns, or {}
Requests ==
    { ParseBody(GarbageBody),
      ParseBody(ObjectBody),
      ParseBody(ArrayBody),
      Dict(<<Item("prompt", Str("a red fox"))>>),
      Dict(<< Item("prompt", Str("a red fox")),
              Item("image_size", Dict(<<Item("width", Num(768))>>)) >>),
      Dict(<< Item("prompt", Str("a red fox")),
              Item("image_size", Str("square_hd")) >>),
      Dict(<< Item("text", Str("hello")), Item("voice", Str("bf_emma")),
              Item("speed", Num(2)) >>),
      Dict(<< Item("prompt", Str("waves")), Item("image_url", None),
              Item("duration", Num(10)), Item("width", Num(640)) >>),
      List(<< List(<<Str("prompt"), Str("a red fox")>>) >>) }

\* what transform_request_to_local returned or raised: the arguments it was
\* given, as they are after the call, and how many times it has been applied
\* in a row, each time to what it returned before
Transformed(route, request_data, value, round) ==
    [op |-> "transform_request_to_local", id |-> "", code |-> 0, body |-> value,
     route |-> route, request_data |-> request_data, round |-> round]

\* transform_request_to_local(endpoint_id, route, request_data)
call_transform_request(endpoint_id, route, request_data, client_id) ==
    /\ last' = Transformed(route, request_data,
                  transform_request_to_local(endpoint_id, route, request_data,
                                             now, client_id), 1)
    /\ UNCHANGED <<jobs, tasks, media, now, nextId, backend_status, speech>>

\* transform_request_to_local applied to the value it has just returned, for
\* the same route
call_transform_again(endpoint_id, client_id) ==
    /\ last.op = "transform_request_to_local"
    /\ ~IsExc(last.body)
    /\ last.round < MaxApply
    /\ last' = Transformed(last.route, last.body,
                  transform_request_to_local(endpoint_id, last.route, last.body,
                                             now, client_id), last.round + 1)
    /\ UNCHANGED <<jobs, tasks, media, now, nextId, backend_status, speech>>

TransformNext ==
    \/ \E e \in Endpoints, route \in TransformRoutes, r \in Requests,
          c \in ClientIds : call_transform_request(e, route, r, c)
    \/ \E e \in Endpoints, c \in ClientIds : call_transform_again(e, c)

TransformSpec == Init /\ [][TransformNext]_vars

(***************************************************************************)
(* Several jobs in the gateway at once: submissions, synchronous and in    *)
(* the background, whose executions interleave at their backend calls      *)
(***************************************************************************)
SubmittedIds == {UUID(n) : n \in 1..MaxSubmitted}

\* what the backends answer: a connection error, a JSON object, a media body
ConcurrentOutcomes ==
    { RequestError("All connection attempts failed"),
      BackendResponse(200, "application/json", "{\"url\": \"http://backend/out\"}",
                      Dict(<<Item("url", Str("http://backend/out"))>>)),
      BackendResponse(200, "audio/wav", "RIFF", NotJson) }

ConcurrentNext ==
    \/ \E sync \in BOOLEAN, c \in ClientIds :
          /\ Accepts("fal-ai/flux/schnell", MaxSubmitted)
          /\ generate("fal-ai/flux/schnell", ObjectBody, sync, c)
    \/ \E id \in SubmittedIds, c \in ClientIds : process_job_start(id, c)
    \/ \E id \in SubmittedIds, o \in ConcurrentOutcomes : process_job_resume(id, o)
    \/ \E id \in SubmittedIds : get_status(id)
    \/ \E id \in SubmittedIds : cancel_job(id)

ConcurrentSpec == Init /\ [][ConcurrentNext]_vars

(***************************************************************************)
(* services/tts_router_service.py: the TTS router.  Its handlers run on    *)
(* one event loop and share the module-level backend_status; a handler is  *)
(* split at its awaits, and what a GET or POST to a backend gives is drawn *)
(* when the await returns.                                                 *)
(***************************************************************************)
\* "healthy" if ok else "unavailable"
Healthy(ok) == IF ok THEN "healthy" ELSE "unavailable"

\* update_backend_status, "Set active backend", from its own two results
ActiveOf(riva_ok, kokoro_ok) ==
    IF riva_ok THEN "riva" ELSE IF kokoro_ok THEN "kokoro" ELSE NoName

\* create_speech, "Route to active backend": the backend that target_url
\* names, read from the status record
TargetOf(status) == IF status.active = "riva" THEN "riva" ELSE "kokoro"

\* the state of a handler coroutine: its position, the locals riva_ok and
\* kokoro_ok of its update_backend_status (FALSE until assigned), the
\* backends it has POSTed to, in order, and the status code it answered
Handler(handler, pc, riva_ok, kokoro_ok, sent, code) ==
    [handler |-> handler, pc |-> pc, riva_ok |-> riva_ok,
     kokoro_ok |-> kokoro_ok, sent |-> sent, code |-> code]

\* the requests of one behaviour, numbered in order of arrival
SpeechIds == 1..MaxSpeech
Handlers == {"create_speech", "health"}

\* what `await http_client.post(...)` gives: a transport error or a response
SpeechOutcomes ==
    { RequestError("All connection attempts failed"),
      BackendResponse(200, "audio/wav", "RIFF", NotJson),
      BackendResponse(500, "application/json", "{\"detail\": \"synthesis failed\"}",
                      Dict(<<Item("detail", Str("synthesis failed"))>>)) }

\* Response(content=response.content, status_code=response.status_code, ...)
SpeechReply(r, response) ==
    Response("create_speech", r, response.status_code, Str(response.text))

\* POST /v1/audio/speech or GET /health arrives: the handler calls
\* update_backend_status and runs to the GET of check_backend("riva")
receive(handler) ==
    /\ Cardinality(DOMAIN speech) < MaxSpeech
    /\ LET r == Cardinality(DOMAIN speech) + 1 IN
         speech' = [x \in DOMAIN speech \cup {r} |->
                      IF x = r
                      THEN Handler(handler, "check_riva", FALSE, FALSE, <<>>, 0)
                      ELSE speech[x]]
    /\ last' = NoResponse
    /\ UNCHANGED <<jobs, tasks, media, now, nextId, backend_status>>

\* check_backend("riva") returns riva_ok; update_backend_status writes
\* backend_status["riva"] and runs to the GET of check_backend("kokoro")
check_riva_returns(r, riva_ok) ==
    /\ r \in DOMAIN speech
    /\ speech[r].pc = "check_riva"
    /\ backend_status' = [backend_status EXCEPT !.riva = Healthy(riva_ok)]
    /\ speech' = [speech EXCEPT ![r].riva_ok = riva_ok, ![r].pc = "check_kokoro"]
    /\ last' = NoResponse
    /\ UNCHANGED <<jobs, tasks, media, now, nextId>>

\* check_backend("kokoro") returns kokoro_ok; update_backend_status writes
\* backend_status["kokoro"] and ["active"] and returns to its handler, which
\* runs on without a suspension: health answers; create_speech answers 503
\* when the record has no active backend, and otherwise reads the body,
\* where it is suspended if the body has not yet arrived (suspends) and
\* else goes on to choose target_url and POST
check_kokoro_returns(r, kokoro_ok, suspends) ==
    /\ r \in DOMAIN speech
    /\ speech[r].pc = "check_kokoro"
    /\ LET status == [riva |-> backend_status.riva,
                      kokoro |-> Healthy(kokoro_ok),
                      active |-> ActiveOf(speech[r].riva_ok, kokoro_ok)]
           checked == [speech[r] EXCEPT !.kokoro_ok = kokoro_ok]
       IN
         /\ backend_status' = status
         /\ IF speech[r].handler = "health"
            THEN /\ speech' = [speech EXCEPT
                                 ![r] = [checked EXCEPT !.pc = "done", !.code = 200]]
                 /\ last' = Response("health", r, 200,
                               Dict(<< Item("status",
                                            Str(IF status.active # NoName
                                                THEN "healthy" ELSE "degraded")),
                                       Item("active_backend",
                                            IF status.active # NoName
                                            THEN Str(status.active) ELSE None) >>))
            ELSE IF status.active = NoName
            THEN /\ speech' = [speech EXCEPT
                                 ![r] = [checked EXCEPT !.pc = "done", !.code = 503]]
                 /\ last' = HTTPException("create_speech", r, 503,
                                          Str("No TTS backend available"))
            ELSE IF suspends
            THEN /\ speech' = [speech EXCEPT ![r] = [checked EXCEPT !.pc = "body"]]
                 /\ last' = NoResponse
            ELSE /\ speech' = [speech EXCEPT
                                 ![r] = [checked EXCEPT !.pc = "post",
                                                        !.sent = <<TargetOf(status)>>]]
                 /\ last' = NoResponse
    /\ UNCHANGED <<jobs, tasks, media, now, nextId>>

\* `await request.body()` returns: create_speech chooses target_url from
\* backend_status["active"] as it is now, and POSTs
body_received(r) ==
    /\ r \in DOMAIN speech
    /\ speech[r].pc = "body"
    /\ speech' = [speech EXCEPT ![r].pc = "post",
                                ![r].sent = <<TargetOf(backend_status)>>]
    /\ last' = NoResponse
    /\ UNCHANGED <<jobs, tasks, media, now, nextId, backend_status>>

\* the POST to target_url ends: a response is passed on; on
\* httpx.RequestError the handler POSTs to Kokoro if the record, as it is
\* now, has active = "riva" and kokoro = "healthy", and else answers 503
post_returns(r, outcome) ==
    /\ r \in DOMAIN speech
    /\ speech[r].pc = "post"
    /\ IF outcome.kind = "response"
       THEN /\ speech' = [speech EXCEPT ![r].pc = "done",
                                        ![r].code = outcome.status_code]
            /\ last' = SpeechReply(r, outcome)
       ELSE IF backend_status.active = "riva" /\ backend_status.kokoro = "healthy"
       THEN /\ speech' = [speech EXCEPT ![r].pc = "fallback",
                                        ![r].sent = Append(@, "kokoro")]
            /\ last' = NoResponse
       ELSE /\ speech' = [speech EXCEPT ![r].pc = "done", ![r].code = 503]
            /\ last' = HTTPException("create_speech", r, 503,
                                     Str("TTS backend error: " \o outcome.msg))
    /\ UNCHANGED <<jobs, tasks, media, now, nextId, backend_status>>

\* the fallback POST to Kokoro ends: a response is passed on; any exception
\* is swallowed and the handler answers 503 with the first error's text
fallback_returns(r, first, outcome) ==
    /\ r \in DOMAIN speech
    /\ speech[r].pc = "fallback"
    /\ IF outcome.kind = "response"
       THEN /\ speech' = [speech EXCEPT ![r].pc = "done",
                                        ![r].code = outcome.status_code]
            /\ last' = SpeechReply(r, outcome)
       ELSE /\ speech' = [speech EXCEPT ![r].pc = "done", ![r].code = 503]
            /\ last' = HTTPException("create_speech", r, 503,
                                     Str("TTS backend error: " \o first.msg))
    /\ UNCHANGED <<jobs, tasks, media, now, nextId, backend_status>>

\* the router after startup(): update_backend_status has run once, with
\* whatever the two backends answered, and no request has arrived
RouterInit ==
    /\ jobs = [x \in {} |-> None]
    /\ tasks = [x \in {} |-> None]
    /\ media = {}
    /\ now = 1
    /\ nextId = 1
    /\ last = NoResponse
    /\ \E riva_ok \in BOOLEAN, kokoro_ok \in BOOLEAN :
          backend_status = [riva |-> Healthy(riva_ok),
                            kokoro |-> Healthy(kokoro_ok),
                            active |-> ActiveOf(riva_ok, kokoro_ok)]
    /\ speech = [x \in {} |-> None]

RouterNext ==
    \/ \E handler \in Handlers : receive(handler)
    \/ \E r \in SpeechIds, riva_ok \in BOOLEAN : check_riva_returns(r, riva_ok)
    \/ \E r \in SpeechIds, kokoro_ok \in BOOLEAN, suspends \in BOOLEAN :
          check_kokoro_returns(r, kokoro_ok, suspends)
    \/ \E r \in SpeechIds : body_received(r)
    \/ \E r \in SpeechIds, outcome \in SpeechOutcomes : post_returns(r, outcome)
    \/ \E r \in SpeechIds, outcome \in SpeechOutcomes :
          fallback_returns(r, RequestError("All connection attempts failed"), outcome)

RouterSpec == RouterInit /\ [][RouterNext]_vars

(***************************************************************************)
(* Properties                                                              *)
(***************************************************************************)
Terminal == {"completed", "failed"}

\* position of a status in [pending, processing, terminal]
Rank(status) ==
    CASE status = "pending" -> 0
      [] status = "processing" -> 1
      [] OTHER -> 2

\* C1: in every step, a job that stays in the store keeps its status or moves
\* it forward in [pending, processing, terminal]; a terminal status never
\* changes (never completed then failed or failed then completed), and every
\* status is one of the four.
C1_StatusSequence ==
    [][\A id \in JobIds :
          /\ (id \in DOMAIN jobs' =>
                jobs'[id]["status"] \in {"pending", "processing"} \cup Terminal)
          /\ (id \in DOMAIN jobs /\ id \in DOMAIN jobs' =>
                /\ Rank(jobs'[id]["status"]) >= Rank(jobs[id]["status"])
                /\ (jobs[id]["status"] \in Terminal =>
                       jobs'[id]["status"] = jobs[id]["status"]))]_vars

\* C1 witness: a background job that went pending -> processing -> failed
C1_Witness ==
    \E id \in DOMAIN jobs :
        /\ jobs[id]["status"] = "failed"
        /\ "started_at" \in DOMAIN jobs[id]
        /\ id \in DOMAIN tasks /\ ~tasks[id].sync /\ tasks[id].posts = 1

\* C2: result and error are never both set; completed has a result and no
\* error, failed has an error and no result, pending and processing have
\* neither.
C2_Outcome ==
    \A id \in DOMAIN jobs :
        LET job == jobs[id]
        IN  /\ ~(job["result"] # None /\ job["error"] # None)
            /\ (job["status"] = "completed" =>
                    job["result"] # None /\ job["error"] = None)
            /\ (job["status"] = "failed" =>
                    job["error"] # None /\ job["result"] = None)
            /\ (job["status"] \in {"pending", "processing"} =>
                    job["result"] = None /\ job["error"] = None)

\* C2 witness: a completed job holding its reshaped result
C2_Witness ==
    \E id \in DOMAIN jobs :
        jobs[id]["status"] = "completed" /\ IsDict(jobs[id]["result"])

\* C3: a record whose status is terminal is left unchanged by every step that
\* keeps it, and the only step that removes it is DELETE /jobs/{id}.
C3_TerminalFrozen ==
    [][\A id \in JobIds :
          (id \in DOMAIN jobs /\ jobs[id]["status"] \in Terminal) =>
             IF id \in DOMAIN jobs'
             THEN jobs'[id] = jobs[id]
             ELSE last' = Response("cancel_job", id, 200,
                                   Dict(<<Item("status", Str("cancelled"))>>))]_vars

\* C3 witness: a terminal record, read by GET /result after the clock moved on
C3_Witness ==
    /\ last.op = "get_result"
    /\ last.id \in DOMAIN jobs
    /\ jobs[last.id]["status"] = "completed"
    /\ jobs[last.id]["completed_at"] < now

\* ids whose record was deleted: a coroutine was created for them with the
\* record, and only DELETE removes a record
Deleted == (DOMAIN tasks) \ (DOMAIN jobs)

\* C4: a deleted record is never re-created, however the execution ends, and
\* every status or result request for its id is answered 404.
C4_DeletedStaysGone ==
    /\ [][\A id \in JobIds : id \in Deleted => id \in Deleted']_vars
    /\ []((last.op \in {"get_status", "get_result"} /\ last.id \in Deleted) =>
             last.code = 404)

\* C4 witness: the record was deleted while the backend call was in flight, the
\* execution has ended since, and a result request got 404
C4_Witness ==
    /\ last.op = "get_result" /\ last.code = 404
    /\ last.id \in Deleted
    /\ tasks[last.id].posts = 1
    /\ tasks[last.id].pc \in {"done", "raised"}

\* C5: no execution of process_job ends with an exception leaving it.
C5_NoEscape ==
    \A id \in DOMAIN tasks : tasks[id].pc # "raised"

\* a step answered a synchronous submission that had reached the backend call
\* or failed before it
SyncAnswered ==
    last.op = "generate" /\ last.id \in DOMAIN tasks /\ tasks[last.id].sync

\* C6: the answer to a synchronous submission is 200 with the job's result when
\* the job is completed, and 500 with the job's error message when it is failed;
\* there is no other answer.
C6_SyncAnswer ==
    SyncAnswered =>
        /\ last.id \in DOMAIN jobs
        /\ LET job == jobs[last.id]
           IN  \/ /\ job["status"] = "completed"
                  /\ last.code = 200
                  /\ last.body = job["result"]
               \/ /\ job["status"] = "failed"
                  /\ last.code = 500
                  /\ last.body = Dict(<<Item("detail", job["error"])>>)

\* a step answered an asynchronous submission
AsyncAnswered ==
    last.op = "generate" /\ last.id \in DOMAIN tasks /\ ~tasks[last.id].sync

\* C7: when the answer to an asynchronous submission is produced, it is 200 with
\* the request id, status pending and the two URLs; the record is in the store
\* with status pending; and the one execution created for the job is waiting in
\* the background, not yet begun (no backend POST issued).
C7_AsyncAnswer ==
    AsyncAnswered =>
        /\ last.code = 200
        /\ last.body = Dict(<< Item("request_id", Str(last.id)),
                               Item("status", Str("pending")),
                               Item("status_url", Str("/status/" \o last.id)),
                               Item("result_url", Str("/result/" \o last.id)) >>)
        /\ last.id \in DOMAIN jobs
        /\ jobs[last.id]["status"] = "pending"
        /\ jobs[last.id]["request_id"] = last.id
        /\ tasks[last.id].pc = "queued"
        /\ tasks[last.id].posts = 0

\* C7 witness: an asynchronous submission has just been answered
C7_Witness ==
    AsyncAnswered /\ last.id \in DOMAIN jobs /\ last.code = 200

\* the endpoint ids of the model that get_route does not resolve
UnknownEndpoints == {e \in Endpoints : get_route(e) = NoRoute}

\* C8: a submission to an endpoint id that get_route does not resolve is
\* answered 404 and changes neither the job store, nor the executions, nor the
\* media store, and draws no job id.
C8_UnknownEndpoint ==
    [][\A e \in UnknownEndpoints, b \in Bodies, sync \in BOOLEAN, c \in ClientIds :
          (/\ (last'.op = "generate" \/ nextId' # nextId)
           /\ generate(e, b, sync, c)) =>
             /\ last'.op = "generate"
             /\ last'.code = 404
             /\ UNCHANGED <<jobs, tasks, media, nextId>>]_vars

\* C8 witness: a submission was answered 404 while a job is in the store
C8_Witness ==
    last.op = "generate" /\ last.code = 404 /\ DOMAIN jobs # {}

\* C9: GET /result/{id} answers by the store: 404 for an id not in it, 202 for a
\* pending or processing job, 500 with the job's error for a failed job, 200
\* with the job's result for a completed job.
C9_ResultAnswer ==
    last.op = "get_result" =>
        IF last.id \notin DOMAIN jobs
        THEN last.code = 404
        ELSE LET job == jobs[last.id]
             IN  CASE job["status"] \in {"pending", "processing"} ->
                        /\ last.code = 202
                        /\ last.body # job["result"]
                   [] job["status"] = "failed" ->
                        /\ last.code = 500
                        /\ last.body = Dict(<<Item("detail", job["error"])>>)
                   [] job["status"] = "completed" ->
                        /\ last.code = 200
                        /\ last.body = job["result"]
                   [] OTHER -> FALSE

\* C9 witness: a result request answered 200 with the result of a completed job
C9_Witness ==
    /\ last.op = "get_result" /\ last.code = 200
    /\ last.id \in DOMAIN jobs
    /\ IsDict(last.body)

\* the backend answered 2xx
Succeeded(outcome) ==
    /\ outcome.kind = "response"
    /\ 200 <= outcome.status_code /\ outcome.status_code <= 299

\* a 2xx answer that process_job classifies and reshapes without an exception
Reshapes(outcome, route, job_id) ==
    /\ Succeeded(outcome)
    /\ LET local_response == Classify({}, job_id, outcome).local_response
       IN  /\ ~IsExc(local_response)
           /\ ~IsExc(transform_response_from_local(route, local_response, job_id))

\* C10 as stated: when the backend call of a background job that is still in
\* the store returns a 2xx answer, the job becomes completed.
C10_SuccessCompletes ==
    [][\A id \in JobIds, o \in Outcomes :
          (/\ tasks' # tasks
           /\ process_job_resume(id, o)
           /\ ~tasks[id].sync
           /\ Succeeded(o)
           /\ id \in DOMAIN jobs) =>
             jobs'[id]["status"] = "completed"]_vars

\* C10, amended: under fair scheduling and returning backend calls, every job
\* in the store is eventually terminal or deleted (at every moment, each id is
\* later out of the store or terminal); a job still in the store
\* whose backend call returns a 2xx answer that is classified and reshaped
\* without an exception becomes completed in that step; and GET /status
\* answers a job in the store with the status its record has.
C10_Liveness ==
    /\ \A id \in JobIds :
          []<>(id \notin DOMAIN jobs \/ jobs[id]["status"] \in Terminal)
    /\ [][\A id \in JobIds, o \in Outcomes :
             (/\ tasks' # tasks
              /\ process_job_resume(id, o)
              /\ Reshapes(o, tasks[id].route, id)
              /\ id \in DOMAIN jobs) =>
                jobs'[id]["status"] = "completed"]_vars
    /\ []((last.op = "get_status" /\ last.id \in DOMAIN jobs) =>
             /\ last.code = 200
             /\ last.body = Dict(<< Item("request_id", Str(last.id)),
                                    Item("status", Str(jobs[last.id]["status"])) >>))

\* C10 witness: GET /status answered completed for a background job
C10_Witness ==
    /\ last.op = "get_status"
    /\ last.id \in DOMAIN jobs
    /\ ~tasks[last.id].sync
    /\ last.body = Dict(<< Item("request_id", Str(last.id)),
                           Item("status", Str("completed")) >>)

\* C11: an execution issues at most one backend POST and, once it has ended,
\* never runs again; when the POST fails (connection error, timeout or non-2xx
\* status) the same step ends the execution without another POST and leaves a
\* job that is still in the store failed.
C11_SinglePost ==
    /\ [](\A id \in DOMAIN tasks : tasks[id].posts <= 1)
    /\ [][\A id \in JobIds :
             (id \in DOMAIN tasks /\ tasks[id].pc \in {"done", "raised"}) =>
                 tasks'[id] = tasks[id]]_vars
    /\ [][tasks' # tasks =>
            \A id \in JobIds, o \in Outcomes :
               (process_job_resume(id, o) /\ ~Succeeded(o)) =>
                  /\ tasks'[id].pc \in {"done", "raised"}
                  /\ tasks'[id].posts = 1
                  /\ (id \in DOMAIN jobs =>
                        /\ jobs'[id]["status"] = "failed"
                        /\ jobs'[id]["error"] # None)]_vars

\* C11 witness: the one POST of a job met a connection error and the job is
\* failed, its execution over
C11_Witness ==
    \E id \in DOMAIN jobs :
        /\ jobs[id]["status"] = "failed"
        /\ jobs[id]["error"] = Str("Connection error: All connection attempts failed")
        /\ tasks[id].pc = "done"
        /\ tasks[id].posts = 1

\* the files of the media store named after a job id
FilesOf(id) == {f \in media : StartsWith(f, id \o ".")}

\* C12: deleting a job whose backend call is in flight leaves its execution
\* waiting for the call, and when the call of a deleted job completes, the
\* gateway holds nothing the call produced: no record of the job and no file
\* named after the job id in the media store.
C12_CancelDiscards ==
    /\ [][\A id \in JobIds :
             (/\ id \in DOMAIN jobs /\ id \notin DOMAIN jobs'
              /\ tasks[id].pc = "awaiting") => tasks'[id] = tasks[id]]_vars
    /\ [][\A id \in JobIds :
             (/\ id \in Deleted
              /\ tasks[id].pc = "awaiting"
              /\ tasks'[id].pc # "awaiting") =>
                 /\ id \notin DOMAIN jobs'
                 /\ FilesOf(id)' = {}]_vars

\* C13: every record whose status is completed or failed holds a completed_at
\* time, and every record whose status is not pending holds a started_at time.
C13_Timestamps ==
    \A id \in DOMAIN jobs :
        /\ (jobs[id]["status"] \in Terminal => "completed_at" \in DOMAIN jobs[id])
        /\ (jobs[id]["status"] # "pending" => "started_at" \in DOMAIN jobs[id])

\* C14: DELETE /jobs/{id} on an id in the store removes that record, leaves
\* every other record as it was and answers 200 {status: cancelled}, whatever
\* the status of the job; on an id not in the store it answers 404 and leaves
\* the store as it was; a delete that follows a delete of the same id is
\* answered 404.
C14_Delete ==
    /\ [][\A id \in StoredIds \cup {UnknownId} :
             cancel_job(id) =>
                IF id \in DOMAIN jobs
                THEN /\ DOMAIN jobs' = (DOMAIN jobs) \ {id}
                     /\ \A other \in DOMAIN jobs' : jobs'[other] = jobs[other]
                     /\ last' = Response("cancel_job", id, 200,
                                         Dict(<<Item("status", Str("cancelled"))>>))
                ELSE /\ jobs' = jobs
                     /\ last'.code = 404]_vars
    /\ [][(last.op = "cancel_job" /\ last'.op = "cancel_job" /\ last'.id = last.id)
             => last'.code = 404]_vars

\* C14 witness: one of two stored jobs was deleted, the other record is still
\* in the store, and a second delete of the same id was answered 404
C14_Witness ==
    /\ last.op = "cancel_job" /\ last.code = 404
    /\ last.id \in StoredIds
    /\ \E other \in DOMAIN jobs : other # last.id /\ jobs[other]["status"] = "completed"

\* a key is a wildcard pattern that matches the id
Matches(key, endpoint_id) ==
    /\ EndsWith(key, "*")
    /\ StartsWith(endpoint_id, SubSeq(key, 1, Len(key) - 1))

\* C15: over any table, get_route returns the config stored under the key
\* equal to the id when there is one, also when patterns match the id; when
\* there is none, it returns the config of the first entry, in insertion
\* order, whose key is a pattern matching the id.
C15_ResolutionOrder ==
    last.op = "get_route" =>
        LET table == last.table
            n == Len(table)
        IN  /\ \A i \in 1..n : table[i].key = last.id => last.body = table[i].config
            /\ (\A i \in 1..n : table[i].key # last.id) =>
                 \A i \in 1..n :
                    (/\ Matches(table[i].key, last.id)
                     /\ \A j \in 1..(i - 1) : ~Matches(table[j].key, last.id)) =>
                       last.body = table[i].config

\* C15 witness: the id is a key of the table, a pattern registered before that
\* key matches it too, and the config of the exact key was returned
C15_Witness ==
    /\ last.op = "get_route"
    /\ Len(last.table) = 2
    /\ Matches(last.table[1].key, last.id)
    /\ last.table[2].key = last.id
    /\ last.body = last.table[2].config

\* C16: get_route returns None for an id that is no key of the table and
\* matches no pattern of it; it returns None or a config of the table, never
\* anything else; and over the configured table, which has no pattern, it
\* returns a config exactly for the ids that list_available_endpoints returns.
C16_ResolverTotal ==
    last.op = "get_route" =>
        LET table == last.table
            n == Len(table)
            listed == {list_available_endpoints[i] :
                          i \in 1..Len(list_available_endpoints)}
        IN  /\ (\A i \in 1..n : table[i].key # last.id
                                 /\ ~Matches(table[i].key, last.id)) =>
                   last.body = NoRoute
            /\ last.body = NoRoute \/ \E i \in 1..n : last.body = table[i].config
            /\ table = ROUTE_MAP =>
                 /\ \A i \in 1..n : ~EndsWith(table[i].key, "*")
                 /\ (last.body # NoRoute <=> last.id \in listed)

\* C16 witness: None was returned over a table that holds a pattern
C16_Witness ==
    /\ last.op = "get_route"
    /\ last.body = NoRoute
    /\ \E i \in 1..Len(last.table) : EndsWith(last.table[i].key, "*")

\* str(status_code) of a backend response
CodeOf(outcome) == ToString(outcome.status_code)

\* C17: when the backend call of a job returns a non-2xx answer, a job in the
\* store is left failed with a non-empty error that contains the status code,
\* and a synchronous submission is answered 500 with a detail that contains the
\* status code; when the call fails at connection level, a job in the store is
\* left failed with an error of the other kind (Connection error, not
\* Container error).
C17_BackendFailure ==
    [][tasks' # tasks =>
         \A id \in JobIds, o \in Outcomes :
            (process_job_resume(id, o) /\ ~Succeeded(o)) =>
               IF o.kind = "response"
               THEN /\ id \in DOMAIN jobs =>
                         /\ jobs'[id]["status"] = "failed"
                         /\ jobs'[id]["error"] # Str("")
                         /\ Contains(PyStr(jobs'[id]["error"]), CodeOf(o))
                         /\ StartsWith(PyStr(jobs'[id]["error"]), "Container error: ")
                    /\ tasks[id].sync =>
                         /\ last'.code = 500
                         /\ IsDict(last'.body)
                         /\ Contains(PyStr(Get(last'.body, "detail", None)), CodeOf(o))
               ELSE id \in DOMAIN jobs =>
                         /\ jobs'[id]["status"] = "failed"
                         /\ StartsWith(PyStr(jobs'[id]["error"]), "Connection error: ")]_vars

\* the URL that a reshaped result carries: images[0].url, video.url or audio.url
ResultUrl(result) ==
    IF HasKey(result, "images")
    THEN Get(Get(result, "images", None).xs[1], "url", None)
    ELSE IF HasKey(result, "video")
    THEN Get(Get(result, "video", None), "url", None)
    ELSE Get(Get(result, "audio", None), "url", None)

\* C18: a completed job for which a backend media body was written to the
\* media store has a result whose URL ends in /files/{name of that file}: the
\* job id and the extension of the file that was written.
C18_UrlNamesFile ==
    \A id \in DOMAIN jobs :
        (jobs[id]["status"] = "completed" /\ FilesOf(id) # {}) =>
            \E f \in FilesOf(id) :
                EndsWith(PyStr(ResultUrl(jobs[id]["result"])), "/files/" \o f)

\* how a content type is classified, in the order stated: json, else wav for
\* audio, else mp4 for video, else png for image, else raw
KindOf(content_type) ==
    IF Contains(content_type, "application/json") THEN "json"
    ELSE IF Contains(content_type, "audio") THEN "wav"
    ELSE IF Contains(content_type, "video") THEN "mp4"
    ELSE IF Contains(content_type, "image") THEN "png"
    ELSE "raw"

\* C19: when the backend call of a job returns a 2xx answer, the answer is
\* classified by its content type in the order json, audio, video, image,
\* other: the media store gains {id}.wav, {id}.mp4 or {id}.png for a media
\* body and nothing otherwise, and a job in the store is completed with the
\* reshaping of the parsed JSON, of {url: /files/{id}.{ext}} or of {raw: text}
\* (failed when parsing or reshaping raises).
C19_Classification ==
    [][tasks' # tasks =>
         \A id \in JobIds, o \in Answers :
            process_job_resume(id, o) =>
               LET kind == KindOf(o.content_type)
                   file == id \o "." \o kind
                   local == CASE kind = "json" -> o.json
                              [] kind = "raw" -> Dict(<<Item("raw", Str(o.text))>>)
                              [] OTHER -> Dict(<<Item("url", Str("/files/" \o file))>>)
                   fal == IF IsExc(local) THEN local
                          ELSE transform_response_from_local(tasks[id].route, local, id)
               IN  /\ media' = IF kind \in {"wav", "mp4", "png"}
                               THEN media \cup {file} ELSE media
                   /\ id \in DOMAIN jobs =>
                        IF IsExc(fal)
                        THEN jobs'[id]["status"] = "failed"
                        ELSE /\ jobs'[id]["status"] = "completed"
                             /\ jobs'[id]["result"] = fal]_vars

\* C19 witness: a job on a video route got an audio body: {id}.wav is the one
\* file written and the result carries /files/{id}.wav
C19_Witness ==
    \E id \in DOMAIN jobs :
        /\ jobs[id]["status"] = "completed"
        /\ media = {id \o ".wav"}
        /\ jobs[id]["result"] =
              Dict(<<Item("video", Dict(<< Item("url", Str("/files/" \o id \o ".wav")),
                                           Item("content_type", Str("video/mp4")) >>))>>)

\* the URL that the stated precedence picks from a JSON object: data[0] of a
\* non-empty list, else audio_url, else url, else the fallback of the job
PreferredAudioUrl(local_response, job_id) ==
    LET data == Get(local_response, "data", None)
        audio_url == Get(local_response, "audio_url", None)
        url == Get(local_response, "url", None)
    IN  IF data.k = "list" /\ Len(data.xs) > 0 /\ Truthy(data.xs[1]) THEN data.xs[1]
        ELSE IF Truthy(audio_url) THEN audio_url
        ELSE IF Truthy(url) THEN url
        ELSE Str(GATEWAY_BASE_URL \o "/files/" \o job_id \o ".wav")

\* C20: when the backend call of a job on a music or audio route returns a
\* 2xx JSON object, a job in the store is completed with
\* {audio: {url, content_type: audio/wav}}, where url is data[0] when data is
\* a non-empty list, otherwise audio_url, otherwise url, otherwise the .wav
\* fallback URL of the job.
C20_AudioPrecedence ==
    [][tasks' # tasks =>
         \A id \in JobIds, o \in Answers :
            (/\ process_job_resume(id, o)
             /\ tasks[id].route.category \in {"music", "audio"}
             /\ KindOf(o.content_type) = "json"
             /\ ~IsExc(o.json) /\ IsDict(o.json)
             /\ id \in DOMAIN jobs) =>
                /\ jobs'[id]["status"] = "completed"
                /\ jobs'[id]["result"] =
                      Dict(<<Item("audio",
                                  Dict(<< Item("url", PreferredAudioUrl(o.json, id)),
                                          Item("content_type", Str("audio/wav")) >>))>>)]_vars

\* the local response that process_job hands to the reshaper for a 2xx
\* answer, as stated: the parsed JSON, {url: /files/{id}.{ext}} for a media
\* body, {raw: text} otherwise
LocalOf(id, o) ==
    LET kind == KindOf(o.content_type)
    IN  CASE kind = "json" -> o.json
          [] kind = "raw" -> Dict(<<Item("raw", Str(o.text))>>)
          [] OTHER -> Dict(<<Item("url", Str("/files/" \o id \o "." \o kind))>>)

\* the URL picked from a JSON object by: audio_url, else url, else the .wav
\* fallback of the job
NamedAudioUrl(local_response, job_id) ==
    LET audio_url == Get(local_response, "audio_url", None)
        url == Get(local_response, "url", None)
    IN  IF Truthy(audio_url) THEN audio_url
        ELSE IF Truthy(url) THEN url
        ELSE Str(GATEWAY_BASE_URL \o "/files/" \o job_id \o ".wav")

\* a configured route of category audio
AudioRoute == get_route("fal-ai/mmaudio-v2")

\* C21 as stated: when the backend call of a job on a tts route returns a 2xx
\* answer, the job ends as a job on an audio route ends for the same answer
\* and job id: completed with the result the audio category produces, or
\* failed when that raises.
C21_TtsAsAudio ==
    [][tasks' # tasks =>
         \A id \in JobIds, o \in Answers :
            (/\ process_job_resume(id, o)
             /\ tasks[id].route.category = "tts"
             /\ id \in DOMAIN jobs) =>
                LET local == LocalOf(id, o)
                    audio == IF IsExc(local) THEN local
                             ELSE transform_response_from_local(AudioRoute, local, id)
                IN  IF IsExc(audio)
                    THEN jobs'[id]["status"] = "failed"
                    ELSE /\ jobs'[id]["status"] = "completed"
                         /\ jobs'[id]["result"] = audio]_vars

\* C21, amended: when the backend call of a job on a tts route returns a 2xx
\* answer that yields a JSON object, the job is completed with
\* {audio: {url, content_type: audio/wav}} where url is audio_url, otherwise
\* url, otherwise the .wav fallback URL of the job; a data array is not
\* read.  The result equals the one the audio category produces for every
\* answer that has no data key.
C21_TtsPrecedence ==
    [][tasks' # tasks =>
         \A id \in JobIds, o \in Answers :
            (/\ process_job_resume(id, o)
             /\ tasks[id].route.category = "tts"
             /\ id \in DOMAIN jobs) =>
                LET local == LocalOf(id, o)
                IN  IF IsExc(local) \/ ~IsDict(local)
                    THEN jobs'[id]["status"] = "failed"
                    ELSE /\ jobs'[id]["status"] = "completed"
                         /\ jobs'[id]["result"] =
                               Dict(<<Item("audio",
                                  Dict(<< Item("url", NamedAudioUrl(local, id)),
                                          Item("content_type", Str("audio/wav")) >>))>>)
                         /\ ~HasKey(local, "data") =>
                               jobs'[id]["result"] =
                                  transform_response_from_local(AudioRoute, local, id)]_vars

\* C21 witness: a job on a tts route is completed with the .wav fallback URL
\* of the job although no file was written: the answer held no audio_url and
\* no url (an empty object, or a data array only)
C21_Witness ==
    \E id \in DOMAIN jobs :
        /\ jobs[id]["endpoint_id"] = "fal-ai/f5-tts"
        /\ jobs[id]["status"] = "completed"
        /\ media = {}
        /\ ResultUrl(jobs[id]["result"]) =
              Str(GATEWAY_BASE_URL \o "/files/" \o id \o ".wav")

\* the extension of the fallback URL of a category
ExtOf(category) ==
    CASE category = "image" -> "png"
      [] category = "video" -> "mp4"
      [] OTHER -> "wav"

\* the keys a reshaper reads a URL from
UrlKeys == {"image_url", "outputs", "video_url", "url", "audio_url", "data"}

\* a local response that carries no URL under any of the keys
NoUrl(local_response) ==
    /\ IsDict(local_response)
    /\ \A key \in UrlKeys : ~Truthy(Get(local_response, key, None))

\* the two forms of a URL scoped to a job
AbsoluteUrl(id, ext) == Str(GATEWAY_BASE_URL \o "/files/" \o id \o "." \o ext)
RelativeUrl(id, ext) == Str("/files/" \o id \o "." \o ext)

\* a URL names a file of the job
JobScoped(url, id) == url.k = "str" /\ Contains(url.s, "/files/" \o id \o ".")

\* C22 as stated: every job-scoped URL in the result of a completed job has the
\* one form {gatewayBase}/files/{jobID}.{ext}, whether the reshaper or the
\* classifier of binary responses built it.
C22_OneForm ==
    \A id \in DOMAIN jobs :
        (/\ jobs[id]["status"] = "completed"
         /\ JobScoped(ResultUrl(jobs[id]["result"]), id)) =>
            \E ext \in {"png", "mp4", "wav"} :
                ResultUrl(jobs[id]["result"]) = AbsoluteUrl(id, ext)

\* C22, amended: when the backend call of a job returns a 2xx answer that
\* carries no URL, the job is completed with the URL
\* {gatewayBase}/files/{jobID}.{ext}, ext being png for image, mp4 for video
\* and wav for music, audio and tts; and every job-scoped URL of a completed
\* job is either that absolute form, or the relative form /files/{jobID}.{ext}
\* that the classifier builds for a media body it wrote to the media store.
C22_FallbackUrl ==
    /\ [][tasks' # tasks =>
            \A id \in JobIds, o \in Answers :
               (/\ process_job_resume(id, o)
                /\ id \in DOMAIN jobs
                /\ NoUrl(LocalOf(id, o))) =>
                   /\ jobs'[id]["status"] = "completed"
                   /\ ResultUrl(jobs'[id]["result"]) =
                         AbsoluteUrl(id, ExtOf(tasks[id].route.category))]_vars
    /\ [](\A id \in DOMAIN jobs :
             (/\ jobs[id]["status"] = "completed"
              /\ JobScoped(ResultUrl(jobs[id]["result"]), id)) =>
                \E ext \in {"png", "mp4", "wav"} :
                    \/ ResultUrl(jobs[id]["result"]) = AbsoluteUrl(id, ext)
                    \/ /\ ResultUrl(jobs[id]["result"]) = RelativeUrl(id, ext)
                       /\ (id \o "." \o ext) \in media)

\* C22 witness: a job on a video route whose backend answered without a URL
\* is completed with {gatewayBase}/files/{jobID}.mp4, no file written
C22_Witness ==
    \E id \in DOMAIN jobs :
        /\ jobs[id]["endpoint_id"] = "fal-ai/veo2"
        /\ jobs[id]["status"] = "completed"
        /\ media = {}
        /\ ResultUrl(jobs[id]["result"]) = AbsoluteUrl(id, "mp4")

\* the step count stated for each image-synthesis transform: standard, fast,
\* high-fidelity, alternate-model
StatedSteps ==
    [comfyui_flux |-> 28, comfyui_flux_schnell |-> 4, comfyui_flux_ultra |-> 50,
     comfyui_sd35 |-> 30]

\* inputs of a node of a built workflow payload
NodeInputs(payload, node) ==
    Get(Get(Get(payload, "prompt", None), node, None), "inputs", None)

\* C23: a payload that transform_request_to_local builds for a route with one
\* of the four image-synthesis transforms has the step count of the variant
\* (28, 4, 50, 30) whatever the request and the category, and a latent image
\* whose width and height are those of the request's image_size, each 1024
\* when the request gives none; {prompt, image_size: {width: 512, height:
\* 512}} on the fast variant gives steps 4 and a 512x512 latent image.
C23_ImagePayload ==
    (/\ last.op = "transform_request_to_local"
     /\ last.round = 1
     /\ last.route.transform_request \in DOMAIN StatedSteps
     /\ ~IsExc(last.body)) =>
        LET sampler == NodeInputs(last.body, "3")
            latent == NodeInputs(last.body, "5")
            image_size == Get(last.request_data, "image_size", Dict(<<>>))
        IN  /\ Get(sampler, "steps", None) =
                  Num(StatedSteps[last.route.transform_request])
            /\ Get(latent, "width", None) = Get(image_size, "width", Num(1024))
            /\ Get(latent, "height", None) = Get(image_size, "height", Num(1024))
            /\ ~HasKey(last.request_data, "image_size") =>
                  /\ Get(latent, "width", None) = Num(1024)
                  /\ Get(latent, "height", None) = Num(1024)
            /\ (/\ last.route.transform_request = "comfyui_flux_schnell"
                /\ last.request_data = ParseBody(ObjectBody)) =>
                  /\ Get(sampler, "steps", None) = Num(4)
                  /\ Get(latent, "width", None) = Num(512)
                  /\ Get(latent, "height", None) = Num(512)

\* C23 witness: the fast variant was applied to {prompt, image_size: {width:
\* 512, height: 512}} and built a payload of 4 steps and a 512x512 latent
C23_Witness ==
    /\ last.op = "transform_request_to_local"
    /\ last.route.transform_request = "comfyui_flux_schnell"
    /\ last.request_data = ParseBody(ObjectBody)
    /\ IsDict(last.body)
    /\ Get(NodeInputs(last.body, "3"), "steps", None) = Num(4)
    /\ Get(NodeInputs(last.body, "5"), "width", None) = Num(512)

\* the payload built for the route of the last call, had its category been
\* another
WithCategory(category) ==
    transform_request_to_local("", [last.route EXCEPT !.category = category],
                               last.request_data, now, "client-uuid")

\* the keys of a dict
Keys(d) == {d.items[i].key : i \in 1..Len(d.items)}

\* the keys of the payload that each named transform builds
PayloadKeys(name) ==
    CASE name = "gradio_audiocraft" -> {"data"}
      [] name = "kokoro_tts" -> {"model", "input", "voice", "response_format", "speed"}
      [] OTHER -> {"prompt", "client_id"}

\* the names that transform_request_to_local dispatches on
KnownNames ==
    {"comfyui_flux", "comfyui_flux_schnell", "comfyui_flux_ultra", "comfyui_sd35",
     "gradio_audiocraft", "kokoro_tts"}

PassedThrough ==
    /\ last.op = "transform_request_to_local"
    /\ last.route.transform_request = NoName
    /\ last.route.category # "video"
    /\ IsDict(last.request_data)

\* C25: for a route with no named transform and a category other than video,
\* transform_request_to_local returns a value equal to the request object it
\* was given, which is as it was before the call; applied again to what it
\* returned, it returns the same value.
C25_PassThrough ==
    /\ [](PassedThrough => last.body = last.request_data)
    /\ [][(PassedThrough /\ last'.round = last.round + 1) =>
             /\ last'.request_data = last.body
             /\ last'.body = last.body]_vars

\* C25 witness: the second application in a row returned the request object
\* of the first, which holds a null value
C25_Witness ==
    /\ PassedThrough
    /\ last.round = 2
    /\ last.route.category = "other"
    /\ last.body = Dict(<< Item("prompt", Str("waves")), Item("image_url", None),
                           Item("duration", Num(10)), Item("width", Num(640)) >>)

\* the endpoint ids of the model that get_route resolves
KnownEndpoints == Endpoints \ UnknownEndpoints

\* C26: a submission to a known endpoint whose body is absent or not
\* parseable is accepted like one whose body is {}: it creates the record of
\* a fresh job id and an execution whose request is the empty object; an
\* asynchronous one leaves the job pending, its execution waiting to begin,
\* and is answered 200; a synchronous one is executed at once up to the
\* backend POST, whose payload is built from the empty object; no step
\* answers it with a 4xx.
C26_BodyNeverRejected ==
    [][\A e \in KnownEndpoints, sync \in BOOLEAN, c \in ClientIds :
          (/\ nextId' # nextId
           /\ generate(e, GarbageBody, sync, c)) =>
             LET id == UUID(nextId)
             IN  /\ id \notin DOMAIN jobs
                 /\ id \in DOMAIN jobs'
                 /\ jobs'[id]["request_id"] = id
                 /\ tasks'[id].request_data = Dict(<<>>)
                 /\ ~(400 <= last'.code /\ last'.code <= 499)
                 /\ IF sync
                    THEN /\ jobs'[id]["status"] = "processing"
                         /\ tasks'[id].pc = "awaiting"
                         /\ tasks'[id].posts = 1
                         /\ tasks'[id].local_request =
                               get_comfyui_workflow(Str(""), Num(1024), Num(1024),
                                                    StatedSteps[get_route(e).transform_request],
                                                    now, c)
                    ELSE /\ jobs'[id]["status"] = "pending"
                         /\ tasks'[id].pc = "queued"
                         /\ last'.code = 200
                         /\ Get(last'.body, "request_id", None) = Str(id)]_vars

\* C26 witness: the background execution of a job submitted without a
\* parseable body has begun: the job is processing and its POST, built from
\* the empty object, is in flight
C26_Witness ==
    \E id \in DOMAIN jobs :
        /\ ~tasks[id].sync
        /\ tasks[id].pc = "awaiting"
        /\ tasks[id].request_data = Dict(<<>>)
        /\ jobs[id]["status"] = "processing"

\* C27: when the background execution of a job begins after the job's record
\* was deleted, that step ends the execution: it issues no backend POST,
\* writes no file and leaves the store without a record for the id; the
\* ended execution never runs again, so no POST, file or record follows.
C27_DeletedBeforeStart ==
    /\ [][tasks' # tasks =>
            \A id \in JobIds, c \in ClientIds :
               (process_job_start(id, c) /\ id \notin DOMAIN jobs) =>
                  /\ ~tasks[id].sync
                  /\ tasks'[id].pc \in {"done", "raised"}
                  /\ tasks'[id].posts = 0
                  /\ media' = media
                  /\ jobs' = jobs]_vars
    /\ [](\A id \in Deleted :
             (tasks[id].pc \in {"done", "raised"} /\ tasks[id].posts = 0) =>
                FilesOf(id) = {})

\* C27 witness: the record was deleted while the execution was queued; the
\* execution has ended without a POST and a status request got 404
C27_Witness ==
    /\ last.op = "get_status" /\ last.code = 404
    /\ last.id \in Deleted
    /\ ~tasks[last.id].sync
    /\ tasks[last.id].pc \in {"done", "raised"}
    /\ tasks[last.id].posts = 0

\* the jobs whose backend call is in flight
InFlightIds == {id \in DOMAIN tasks : tasks[id].pc = "awaiting"}

\* C28: a step of the execution of one job (its start, inline or in the
\* background, and its end when the backend call returns or fails) leaves
\* the record and the execution of every other job as they were; and
\* whenever the backend calls of several jobs are in flight, the call of each
\* of them may be the next to return, with any outcome: no order is imposed.
C28_Independent ==
    /\ [][\A id \in SubmittedIds :
             (/\ id \in DOMAIN tasks'
              /\ (id \notin DOMAIN tasks \/ tasks'[id] # tasks[id])) =>
                /\ \A other \in (DOMAIN jobs) \ {id} :
                      other \in DOMAIN jobs' /\ jobs'[other] = jobs[other]
                /\ \A other \in (DOMAIN tasks) \ {id} :
                      tasks'[other] = tasks[other]
                /\ DOMAIN jobs' \subseteq (DOMAIN jobs) \cup {id}]_vars
    /\ [](\A id \in InFlightIds, o \in ConcurrentOutcomes :
             ENABLED process_job_resume(id, o))

\* C28 witness: of two jobs in the store, the one submitted later is
\* completed while the backend call of the earlier one is still in flight
C28_Witness ==
    \E m, n \in 1..MaxSubmitted :
        /\ m < n
        /\ UUID(m) \in DOMAIN jobs /\ UUID(n) \in DOMAIN jobs
        /\ tasks[UUID(m)].pc = "awaiting"
        /\ jobs[UUID(m)]["status"] = "processing"
        /\ jobs[UUID(n)]["status"] = "completed"

\* C28 witness of the other order: the job submitted earlier is completed
\* while the backend call of the later one is still in flight
C28_InOrder ==
    \E m, n \in 1..MaxSubmitted :
        /\ m < n
        /\ UUID(m) \in DOMAIN jobs /\ UUID(n) \in DOMAIN jobs
        /\ tasks[UUID(n)].pc = "awaiting"
        /\ jobs[UUID(n)]["status"] = "processing"
        /\ jobs[UUID(m)]["status"] = "completed"

\* the ids a file of the media store is named after
OwnersOf(f) == {id \in DOMAIN tasks : StartsWith(f, id \o ".")}

\* C29: a submission that is accepted creates its record under an id that is
\* not in the store and never was (no record and no execution was ever
\* created for it), and leaves every record of the store as it was, whatever
\* the other submissions are doing; the files written by an execution are
\* named after its own job id, so every file of the media store belongs to
\* one job.
C29_FreshId ==
    /\ [][nextId' # nextId =>
            LET id == UUID(nextId)
            IN  /\ id \notin DOMAIN jobs
                /\ id \notin DOMAIN tasks
                /\ DOMAIN jobs' = (DOMAIN jobs) \cup {id}
                /\ DOMAIN tasks' = (DOMAIN tasks) \cup {id}
                /\ jobs'[id]["request_id"] = id
                /\ \A other \in DOMAIN jobs : jobs'[other] = jobs[other]
                /\ \A other \in DOMAIN tasks : tasks'[other] = tasks[other]]_vars
    /\ [][\A id \in SubmittedIds :
             (id \in DOMAIN tasks /\ tasks'[id] # tasks[id]) =>
                \A f \in media' \ media : OwnersOf(f) = {id}]_vars
    /\ [](\A f \in media : Cardinality(OwnersOf(f)) = 1)

\* C29 witness: two jobs are in the store, both completed, and each has
\* written its own file
C29_Witness ==
    /\ {UUID(1), UUID(2)} \subseteq DOMAIN jobs
    /\ jobs[UUID(1)]["status"] = "completed"
    /\ jobs[UUID(2)]["status"] = "completed"
    /\ FilesOf(UUID(1)) = {UUID(1) \o ".wav"}
    /\ FilesOf(UUID(2)) = {UUID(2) \o ".wav"}
    /\ Cardinality(media) = 2

\* C30: the only step that takes a record out of the store is a DELETE
\* /jobs/{id} of its own id, answered 200: the start, the completion and the
\* failure of its execution, the answer to its synchronous submission, and
\* every submission, status request and delete for another id keep it; GET
\* /status/{id} answers 200 for every id in the store, and 404 only for an id
\* that was deleted or never given out.
C30_Retained ==
    /\ [][\A id \in SubmittedIds :
             (id \in DOMAIN jobs /\ id \notin DOMAIN jobs') =>
                last' = Response("cancel_job", id, 200,
                                 Dict(<<Item("status", Str("cancelled"))>>))]_vars
    /\ [](last.op = "get_status" =>
             IF last.id \in DOMAIN jobs
             THEN /\ last.code = 200
                  /\ Get(last.body, "request_id", None) = Str(last.id)
             ELSE /\ last.code = 404
                  /\ (last.id \in Deleted \/ last.id \notin DOMAIN tasks))

\* C30 witness: a synchronous submission was answered with its failure, another
\* job was deleted, and GET /status still answers 200 for the failed job
C30_Witness ==
    /\ last.op = "get_status" /\ last.code = 200
    /\ last.id \in DOMAIN jobs
    /\ tasks[last.id].sync
    /\ jobs[last.id]["status"] = "failed"
    /\ Deleted # {}

\* C31: a step that answers GET /status/{id} or GET /result/{id} leaves the
\* job store, the executions and the media store as they were, for every
\* store and every id, known or not; GET /status answers 200 with the id and
\* the status that the record holds for an id in the store, and 404 for an
\* id that is not in it.
C31_PureReads ==
    /\ [][last'.op \in {"get_status", "get_result"} =>
            UNCHANGED <<jobs, tasks, media, now, nextId>>]_vars
    /\ [](last.op = "get_status" =>
             IF last.id \in DOMAIN jobs
             THEN /\ last.code = 200
                  /\ last.body = Dict(<< Item("request_id", Str(last.id)),
                                         Item("status", Str(jobs[last.id]["status"])) >>)
             ELSE /\ last.code = 404
                  /\ last.body = Dict(<<Item("detail", Str("Job not found"))>>))

\* C31 witness: GET /status was answered 404 for an id that was never given
\* out, and the store holds every job it held before
C31_Witness ==
    /\ last.op = "get_status" /\ last.code = 404
    /\ last.id = UnknownId
    /\ DOMAIN jobs = StoredIds
    /\ \E id \in StoredIds : jobs[id]["status"] = "completed"


\* the backend that request r's own update_backend_status selected
Selected(r) == ActiveOf(speech[r].riva_ok, speech[r].kokoro_ok)

\* r is a speech request whose own health check is over
Checked(r) ==
    /\ speech[r].handler = "create_speech"
    /\ speech[r].pc \notin {"check_riva", "check_kokoro"}

\* C32: each speech request is forwarded to the backend that its own health
\* check selected (Riva if the check found Riva available, else Kokoro if it
\* found Kokoro available), a request whose check found neither is answered
\* 503 with nothing forwarded, and this with requests sharing the status
\* record; the fallback POST to Kokoro is made only after a connection error
\* of Riva and only while the record marks Kokoro healthy.
C32_OwnCheckDecides ==
    /\ [](\A r \in DOMAIN speech : Checked(r) =>
             IF Selected(r) = NoName
             THEN /\ speech[r].pc = "done"
                  /\ speech[r].code = 503
                  /\ speech[r].sent = <<>>
             ELSE /\ speech[r].sent # <<>> => speech[r].sent[1] = Selected(r)
                  /\ speech[r].pc = "done" => speech[r].sent # <<>>)
    /\ [][\A r \in DOMAIN speech :
             (Len(speech[r].sent) = 1 /\ Len(speech'[r].sent) = 2) =>
                 /\ speech[r].sent[1] = "riva"
                 /\ speech'[r].sent[2] = "kokoro"
                 /\ backend_status.kokoro = "healthy"]_vars

=============================================================================
